---------------------------- MODULE Spec2Model ----------------------------
(***************************************************************************)
(* Persona backend: the POST /generate handler (generation and enrichment  *)
(* workflows), the two enrichment stages, the model-reply parsers, the     *)
(* persona generator, and the spreadsheet import / validation / export.    *)
(*                                                                         *)
(* JavaScript values are tagged records: [undef], [null], [nan], [num],    *)
(* [str] (a sequence of one-character strings, for text the code trims or  *)
(* parses), [text] (an opaque literal), [list] (a sequence of values) and  *)
(* [obj] (a record of values).  An object is a TLA+ record holding only    *)
(* the keys it has; {...a, ...b} is b @@ a.  Fractions with one decimal    *)
(* (confidences) are held in tenths: 0.3 is 3, 1 is 10, 1.4 is 14.         *)
(***************************************************************************)
EXTENDS Integers, Sequences, FiniteSets, TLC

VARIABLES
    pc,                      \* position of the POST /generate handler
    req,                     \* the request: method, parse outcome, body fields
    env,                     \* process.env credentials
    sheet,                   \* rows of the external sheet as fetched
    importedPersonas,        \* fetchPersonasFromExternalSheet's result
    validation,              \* sheetsService.validatePersonas's result
    socialEnrichedPersonas,  \* Stage A's enrichedPersonas, as it grows
    finalEnrichedPersonas,   \* Stage B's enrichedPersonas, as it grows
    i,                       \* loop index of the running enrichment stage
    handlerResearchData,     \* the handler's researchData: conductResearch's result
    responses,               \* HTTP responses sent, in order
    calls,                   \* collaborator calls started, in order
    fin,                     \* input of the function under check
    fout,                    \* its result
    fpc                      \* "ready" before it is applied, "done" after

handlerVars == <<pc, req, env, sheet, importedPersonas, validation,
                 socialEnrichedPersonas, finalEnrichedPersonas, i, handlerResearchData,
                 responses>>
funcVars == <<fin, fout, fpc>>
vars == <<handlerVars, funcVars, calls>>

----------------------------------------------------------------------------
(* Bounds *)

\* confidences in model replies range over -MaxConf..MaxConf tenths
MaxConf == 14
\* data rows of the external sheet
MaxRows == 2
\* the most personas in a batch handed to the import validator
MaxBatch == 2
\* the most items in the array the generator's model replies with
MaxGenerated == 2

----------------------------------------------------------------------------
(* JavaScript values *)

Undef == [undef |-> TRUE]
Null == [null |-> TRUE]
NaN == [nan |-> TRUE]
Num(n) == [num |-> n]
Str(s) == [str |-> s]
Text(t) == [text |-> t]
List(items) == [list |-> items]
Obj(r) == [obj |-> r]
EmptyObj == Obj([k \in {} |-> Undef])

IsUndef(v) == "undef" \in DOMAIN v
IsNull(v) == "null" \in DOMAIN v
IsNaN(v) == "nan" \in DOMAIN v
IsNum(v) == "num" \in DOMAIN v
IsStr(v) == "str" \in DOMAIN v
IsText(v) == "text" \in DOMAIN v
IsList(v) == "list" \in DOMAIN v
IsObj(v) == "obj" \in DOMAIN v

\* o.k : undefined when the object has no such key
Get(o, k) == IF k \in DOMAIN o THEN o[k] ELSE Undef

\* v.k on a value: undefined on anything but an object holding the key
Field(v, k) == IF IsObj(v) THEN Get(v.obj, k) ELSE Undef

\* !!v
Truthy(v) ==
    CASE IsUndef(v) -> FALSE
      [] IsNull(v) -> FALSE
      [] IsNaN(v) -> FALSE
      [] IsNum(v) -> v.num # 0
      [] IsStr(v) -> v.str # <<>>
      [] IsText(v) -> v.text # ""
      [] OTHER -> TRUE

\* a || b
Or(a, b) == IF Truthy(a) THEN a ELSE b

\* Math.max(v, 0) then Math.min(., 1) on tenths; NaN for what is no number
Clamp01(v) ==
    IF IsNum(v)
    THEN Num(IF v.num < 0 THEN 0 ELSE IF v.num > 10 THEN 10 ELSE v.num)
    ELSE IF IsNull(v) THEN Num(0) ELSE NaN

----------------------------------------------------------------------------
(* Stage A parser: PersonaEnrichmentAgent.parseEnrichmentResponse *)

FallbackConfidence == 3

PEA_Fallback ==
    [enrichedFields |->
        Obj([social_media_profiles |->
                Obj([facebook |-> Obj([active |-> Text("true"), frequency |-> Text("weekly")])]),
             communication_style |->
                Obj([preferred_channels |-> List(<<Text("email")>>),
                     formality_level |-> Text("professional")])]),
     confidence |-> Num(FallbackConfidence),
     fieldsEnriched |-> List(<<Text("basic_fallback")>>),
     insights |-> List(<<Text("Enrichment failed, using basic fallback data")>>)]

\* A reply text is "nojson" (the pattern finds no {...}), "badjson" (JSON.parse
\* throws on the match) or "json" with the parsed object in .json
PEA_parseEnrichmentResponse(reply) ==
    IF reply.kind # "json"
    THEN PEA_Fallback
    ELSE LET parsedData == reply.json IN
         IF ~Truthy(Get(parsedData, "enrichedFields")) \/ ~Truthy(Get(parsedData, "confidence"))
         THEN PEA_Fallback
         ELSE [enrichedFields |-> parsedData.enrichedFields,
               confidence |-> Clamp01(parsedData.confidence),
               fieldsEnriched |-> Or(Get(parsedData, "fieldsEnriched"), List(<<>>)),
               insights |-> Or(Get(parsedData, "insights"), List(<<>>))]


----------------------------------------------------------------------------
(* Stage B parser: personaAgent parseEnrichmentResponse *)

PA_Fallback ==
    [additions |->
        Obj([legal_motivations |-> List(<<Text("seeking legal resolution")>>),
             legal_barriers |-> List(<<Text("cost concerns"), Text("complexity fears")>>)]),
     insights |-> List(<<Text("Enrichment parsing failed, using fallback data")>>),
     legal_profile |-> Obj([likely_legal_experience |-> Text("limited")]),
     confidence_delta |-> Num(0)]

PA_parseEnrichmentResponse(reply) ==
    IF reply.kind # "json"
    THEN PA_Fallback
    ELSE LET parsed == reply.json IN
         [additions |-> Or(Get(parsed, "additions"), EmptyObj),
          insights |-> Or(Get(parsed, "insights"), List(<<>>)),
          legal_profile |-> Or(Get(parsed, "legal_profile"), EmptyObj),
          confidence_delta |-> Or(Get(parsed, "confidence_delta"), Num(0))]

----------------------------------------------------------------------------
(* Generator parser: personaAgent parsePersonaResponse.  A function that   *)
(* can throw yields [returned |-> value] or [threw |-> message]; a message *)
(* is the sequence of the parts the code concatenates.                     *)

Returned(v) == [returned |-> v]
Threw(parts) == [threw |-> parts]
HasReturned(r) == "returned" \in DOMAIN r
HasThrown(r) == "threw" \in DOMAIN r

\* a persona-array parser that takes an empty array for a failure
parsePersonaResponse_rejectingEmpty(reply) ==
    CASE reply.kind = "nojson" ->
            Threw(<<"Persona parsing failed: ", "No JSON array found in Claude response">>)
      [] reply.kind = "badjson" ->
            Threw(<<"Persona parsing failed: ", "JSON.parse SyntaxError">>)
      [] reply.json = <<>> ->
            Threw(<<"Persona parsing failed: ", "Response is not an array of personas">>)
      [] OTHER -> Returned(reply.json)

\* "nojson": the pattern finds no [...]; "badjson": JSON.parse throws on the
\* match; "json": the parsed array in .json (a match that parses starts with
\* "[" and is an array, so the Array.isArray branch never throws)
parsePersonaResponse(reply) ==
    CASE reply.kind = "nojson" ->
            Threw(<<"Persona parsing failed: ", "No JSON array found in Claude response">>)
      [] reply.kind = "badjson" ->
            Threw(<<"Persona parsing failed: ", "JSON.parse SyntaxError">>)
      [] OTHER -> Returned(reply.json)

----------------------------------------------------------------------------
(* Model replies the parsers are checked on *)

EmptyRec == [k \in {} |-> Undef]

\* an object literal holding only the keys whose value is not undefined
Only(k, v) == IF IsUndef(v) THEN EmptyRec ELSE (k :> v)

ConfValues == {Undef} \cup {Num(n) : n \in (0 - MaxConf)..MaxConf}

EnrichedFieldsValues ==
    { Undef,
      EmptyObj,
      Obj([communication_style |-> Obj([formality_level |-> Text("casual")])]),
      Obj([name |-> Str(<<"z">>)]),
      Obj([legal_profile |-> Obj([previous_legal_experience |-> Text("none")]),
           enrichment |-> Text("from reply")]) }

RepliesA ==
    {[kind |-> "nojson"], [kind |-> "badjson"]} \cup
    {[kind |-> "json",
      json |-> Only("enrichedFields", ef) @@ Only("confidence", c)
               @@ Only("insights", ins)] :
        ef \in EnrichedFieldsValues, c \in ConfValues,
        ins \in {Undef, List(<<Text("insight")>>)}}

AdditionsValues ==
    { Undef,
      EmptyObj,
      Obj([legal_motivations |-> List(<<Text("compensation")>>)]),
      Obj([name |-> Str(<<"z">>)]),
      Obj([enrichment |-> Obj([status |-> Text("pending")])]) }

RepliesB ==
    {[kind |-> "nojson"], [kind |-> "badjson"]} \cup
    {[kind |-> "json",
      json |-> Only("additions", ad) @@ Only("legal_profile", lp)
               @@ Only("insights", ins) @@ Only("confidence_delta", cd)] :
        ad \in AdditionsValues,
        lp \in {Undef, Obj([urgency_perception |-> Text("high")])},
        ins \in {Undef, List(<<Text("insight")>>)},
        cd \in {Undef, Num(0), Num(2)}}


----------------------------------------------------------------------------
(* Persona generator: personaAgent generatePersonas and its helpers.       *)
(* A source-context category is the sequence of its items' sources.  The   *)
(* generator's confidence_score is a whole number on the 0..100 scale; a   *)
(* bio is [chars |-> n], a text of n characters.                           *)

Chars(n) == [chars |-> n]
IsChars(v) == "chars" \in DOMAIN v

\* v.length
Length(v) ==
    CASE IsList(v) -> Num(Len(v.list))
      [] IsStr(v) -> Num(Len(v.str))
      [] IsChars(v) -> Num(v.chars)
      [] OTHER -> Undef

\* !!v for the values of a generated persona
TruthyG(v) == IF IsChars(v) THEN v.chars # 0 ELSE Truthy(v)

If(c, s) == IF c THEN s ELSE <<>>

buildSourceContext(uploadedData, researchData) ==
    LET demographic_data ==
            If(Truthy(uploadedData) /\ Truthy(Field(uploadedData, "mri_data")), <<"mri_file">>)
            \o If(Truthy(uploadedData) /\ Truthy(Field(uploadedData, "targetsmart_data")),
                  <<"targetsmart_file">>)
            \o If(Truthy(researchData) /\ Truthy(Field(researchData, "demographics")),
                  <<"perplexity_research">>)
        client_data ==
            If(Truthy(uploadedData) /\ Truthy(Field(uploadedData, "client_data")), <<"client_file">>)
        social_insights ==
            If(Truthy(researchData) /\ Truthy(Field(researchData, "social_insights")),
               <<"perplexity_research">>)
        consumer_behavior ==
            If(Truthy(researchData) /\ Truthy(Field(researchData, "consumer_behavior")),
               <<"perplexity_research">>)
    IN [demographic_data |-> demographic_data,
        case_data |-> <<>>,
        social_insights |-> social_insights,
        consumer_behavior |-> consumer_behavior,
        client_data |-> client_data,
        total_sources |-> Len(demographic_data) + Len(social_insights)
                          + Len(consumer_behavior) + Len(client_data)]

SufficiencyCategories == <<"demographic_data", "social_insights", "consumer_behavior">>

\* a sufficiency check that asks for two populated categories
validateDataSufficiency_needingTwo(sourceContext) ==
    LET Populated(category) == Len(sourceContext[category]) > 0
        NotPopulated(category) == ~Populated(category)
        available == SelectSeq(SufficiencyCategories, Populated)
    IN [sufficient |-> Len(available) >= 2,
        missing |-> SelectSeq(SufficiencyCategories, NotPopulated),
        available |-> available,
        confidence |-> <<Len(available) * 100, Len(SufficiencyCategories)>>]

\* confidence is (availableCount / 3) * 100, kept as the pair <<availableCount * 100, 3>>
validateDataSufficiency(sourceContext) ==
    LET Populated(category) == Len(sourceContext[category]) > 0
        NotPopulated(category) == ~Populated(category)
        available == SelectSeq(SufficiencyCategories, Populated)
        missing == SelectSeq(SufficiencyCategories, NotPopulated)
    IN [sufficient |-> Len(available) >= 1,
        missing |-> missing,
        available |-> available,
        confidence |-> <<Len(available) * 100, Len(SufficiencyCategories)>>]

\* per persona; assigning a property to what is no object throws (module code is strict)
addSourceCitations(persona, sourceContext) ==
    [source_citations |->
        Obj([primary_sources |-> Or(Get(persona.obj, "data_sources"), List(<<>>)),
             data_points |-> Num(sourceContext.total_sources),
             citation_coverage |->
                IF Truthy(Get(persona.obj, "data_sources")) THEN Text("cited") ELSE Text("limited")])]
    @@ persona.obj

RequiredFields == <<"name", "age", "bio", "motivations", "barriers", "communication_style">>

CitationPoints == 30
ConfidencePoints == 25
CompletenessPoints == 25
BioPoints == 20
ConfidenceOver == 70
BioLongerThan == 100
MinQuality == 50

\* v > n, false for what is no number
Gt(v, n) == IsNum(v) /\ v.num > n

PersonaValidation(persona) ==
    LET Missing(field) ==
            \/ ~TruthyG(Get(persona, field))
            \/ (IsList(Get(persona, field)) /\ Len(Get(persona, field).list) = 0)
        missing_fields == SelectSeq(RequiredFields, Missing)
        complete == Len(missing_fields) = 0
        primary == Field(Get(persona, "source_citations"), "primary_sources")
    IN [complete |-> complete,
        missing_fields |-> missing_fields,
        quality_score |->
            (IF Truthy(Get(persona, "source_citations")) /\ Gt(Length(primary), 0)
                THEN CitationPoints ELSE 0)
            + (IF Truthy(Get(persona, "confidence_score"))
                  /\ Gt(Get(persona, "confidence_score"), ConfidenceOver)
                THEN ConfidencePoints ELSE 0)
            + (IF complete THEN CompletenessPoints ELSE 0)
            + (IF TruthyG(Get(persona, "bio")) /\ Gt(Length(Get(persona, "bio")), BioLongerThan)
                THEN BioPoints ELSE 0)]

\* a validator that keeps a persona on its score alone
validatePersonas_onScoreAlone(personas) ==
    LET Scored(persona) == PersonaValidation(persona).quality_score >= MinQuality
        marked == [n \in 1..Len(personas) |->
                      [validation |-> PersonaValidation(personas[n])] @@ personas[n]]
    IN SelectSeq(marked, Scored)

RECURSIVE validatePersonas(_)
validatePersonas(personas) ==
    IF personas = <<>> THEN <<>>
    ELSE LET persona == Head(personas)
             v == PersonaValidation(persona)
         IN (IF v.complete /\ v.quality_score >= MinQuality
             THEN <<[validation |-> v] @@ persona>>
             ELSE <<>>) \o validatePersonas(Tail(personas))

\* lines 8-26: the credential check, the source context, the sufficiency check
generatePersonasBegin(apiKey, uploadedData, researchData) ==
    IF ~apiKey
    THEN Threw(<<"Anthropic API key not configured">>)
    ELSE LET sourceContext == buildSourceContext(uploadedData, researchData)
             v == validateDataSufficiency(sourceContext)
         IN IF ~v.sufficient
            THEN Threw(<<"Insufficient data for persona generation: ">> \o v.missing)
            ELSE Returned([sourceContext |-> sourceContext, validation |-> v])

\* lines 32-60: the model call's outcome, parse, cite, validate, the result object
generatePersonasEnd(begun, call) ==
    IF call.kind = "fail"
    THEN Threw(<<call.error>>)
    ELSE LET parsed == parsePersonaResponse(call) IN
         IF HasThrown(parsed) THEN parsed
         ELSE IF \E n \in 1..Len(parsed.returned) : ~IsObj(parsed.returned[n])
         THEN Threw(<<"TypeError: Cannot create property 'source_citations'">>)
         ELSE LET citedPersonas ==
                      [n \in 1..Len(parsed.returned) |->
                          addSourceCitations(parsed.returned[n], begun.sourceContext)]
              IN Returned([personas |-> validatePersonas(citedPersonas),
                           sources_used |-> begun.sourceContext.total_sources,
                           validation |-> begun.validation,
                           generation_timestamp |-> Text("now")])


----------------------------------------------------------------------------
(* Text operations on [str] values (sequences of one-character strings)    *)

Space == " "
DigitValue ==
    ("0" :> 0) @@ ("1" :> 1) @@ ("2" :> 2) @@ ("3" :> 3) @@ ("4" :> 4) @@
    ("5" :> 5) @@ ("6" :> 6) @@ ("7" :> 7) @@ ("8" :> 8) @@ ("9" :> 9)
DigitChar == <<"0", "1", "2", "3", "4", "5", "6", "7", "8", "9">>
IsDigit(c) == c \in DOMAIN DigitValue

RECURSIVE TrimLeft(_)
TrimLeft(s) == IF s # <<>> /\ Head(s) = Space THEN TrimLeft(Tail(s)) ELSE s

RECURSIVE TrimRight(_)
TrimRight(s) ==
    IF s # <<>> /\ s[Len(s)] = Space THEN TrimRight(SubSeq(s, 1, Len(s) - 1)) ELSE s

\* String.prototype.trim on the characters
TrimChars(s) == TrimRight(TrimLeft(s))

\* value.trim(): an opaque literal has no surrounding space
Trim(v) == IF IsStr(v) THEN Str(TrimChars(v.str)) ELSE v

\* the leading digits of s, as a number, and how many there are
RECURSIVE LeadingDigits(_, _, _)
LeadingDigits(s, acc, count) ==
    IF s # <<>> /\ IsDigit(Head(s))
    THEN LeadingDigits(Tail(s), acc * 10 + DigitValue[Head(s)], count + 1)
    ELSE <<acc, count>>

\* parseInt(value): leading space skipped, an optional sign, then digits; NaN without digits
ParseInt(v) ==
    IF ~IsStr(v) THEN NaN
    ELSE LET t == TrimLeft(v.str)
             negative == t # <<>> /\ Head(t) = "-"
             body == IF t # <<>> /\ Head(t) \in {"-", "+"} THEN Tail(t) ELSE t
             d == LeadingDigits(body, 0, 0)
         IN IF d[2] = 0 THEN NaN ELSE Num(IF negative THEN 0 - d[1] ELSE d[1])

\* the decimal digits of a natural number
RECURSIVE Digits(_)
Digits(n) == IF n < 10 THEN <<DigitChar[n + 1]>> ELSE Digits(n \div 10) \o <<DigitChar[(n % 10) + 1]>>

\* a number as the sheet shows it
NumToStr(n) == IF n < 0 THEN <<"-">> \o Digits(0 - n) ELSE Digits(n)

\* value.split(/[,;]/)
RECURSIVE SplitChars(_, _)
SplitChars(s, current) ==
    IF s = <<>> THEN <<current>>
    ELSE IF Head(s) \in {",", ";"} THEN <<current>> \o SplitChars(Tail(s), <<>>)
    ELSE SplitChars(Tail(s), Append(current, Head(s)))

\* value.split(/[,;]/).map(item => item.trim()).filter(item => item)
SplitList(v) ==
    IF ~IsStr(v) THEN List(<<v>>)
    ELSE LET parts == SplitChars(v.str, <<>>)
             trimmed == [n \in 1..Len(parts) |-> TrimChars(parts[n])]
             NonEmpty(x) == x # <<>>
             kept == SelectSeq(trimmed, NonEmpty)
         IN List([n \in 1..Len(kept) |-> Str(kept[n])])

----------------------------------------------------------------------------
(* Spreadsheet import: sheetsService parsePersonaFromRow and               *)
(* fetchPersonasFromExternalSheet.  A sheet is the sequence of its rows,   *)
(* the header row first; a header cell is an opaque literal, a data cell a *)
(* [str] or an opaque literal.                                             *)

\* h.toLowerCase().trim() on the header spellings the sheets of this model use
ToLowerTrim(h) ==
    CASE h = "Name" -> "name"
      [] h = "Full Name" -> "full name"
      [] h = " Age " -> "age"
      [] h = "Age" -> "age"
      [] h = "Gender" -> "gender"
      [] h = "Location" -> "location"
      [] h = "Occupation" -> "occupation"
      [] h = "Education" -> "education"
      [] h = "Income" -> "income"
      [] h = "Original Bio" -> "original bio"
      [] h = "Interests" -> "interests"
      [] h = "Values" -> "values"
      [] h = "Communication Style" -> "communication style"
      [] h = "Enrichment" -> "enrichment"
      [] h = "Social Media - Facebook" -> "social media - facebook"
      [] h = "Social Media - LinkedIn" -> "social media - linkedin"
      [] h = "Social Media - Other" -> "social media - other"
      [] h = "Professional Background" -> "professional background"
      [] h = "Community Involvement" -> "community involvement"
      [] h = "Legal Motivations" -> "legal motivations"
      [] h = "Legal Barriers" -> "legal barriers"
      [] h = "Legal Experience" -> "legal experience"
      [] h = "Preferred Legal Communication" -> "preferred legal communication"
      [] h = "Decision Timeline" -> "decision timeline"
      [] h = "Trust Factors" -> "trust factors"
      [] h = "Document Insights" -> "document insights"
      [] h = "Enrichment Sources" -> "enrichment sources"
      [] h = "Confidence Score" -> "confidence score"
      [] h = "Original Source" -> "original source"
      [] h = "Enriched Date" -> "enriched date"
      [] h = "Campaign Matter" -> "campaign matter"
      [] OTHER -> h

columnMapping ==
    [name |-> "name", age |-> "age", gender |-> "gender", location |-> "location",
     city |-> "location", state |-> "location", income |-> "income",
     education |-> "education", occupation |-> "occupation", job |-> "occupation",
     interests |-> "interests", hobbies |-> "interests", values |-> "values",
     communication_style |-> "communication_style", bio |-> "bio",
     biography |-> "bio", description |-> "bio", motivations |-> "motivations",
     barriers |-> "barriers", concerns |-> "barriers", personality |-> "personality",
     traits |-> "personality"]
    @@ ("first name" :> "name") @@ ("full name" :> "name")
    @@ ("household income" :> "income") @@ ("communication style" :> "communication_style")

\* header.replace(/\s+/g, '_') on the lower-case headers the mapping does not hold
Underscored(header) ==
    CASE header = "original bio" -> "original_bio"
      [] header = "social media - facebook" -> "social_media_-_facebook"
      [] header = "social media - linkedin" -> "social_media_-_linkedin"
      [] header = "social media - other" -> "social_media_-_other"
      [] header = "professional background" -> "professional_background"
      [] header = "community involvement" -> "community_involvement"
      [] header = "legal motivations" -> "legal_motivations"
      [] header = "legal barriers" -> "legal_barriers"
      [] header = "legal experience" -> "legal_experience"
      [] header = "preferred legal communication" -> "preferred_legal_communication"
      [] header = "decision timeline" -> "decision_timeline"
      [] header = "trust factors" -> "trust_factors"
      [] header = "document insights" -> "document_insights"
      [] header = "enrichment sources" -> "enrichment_sources"
      [] header = "confidence score" -> "confidence_score"
      [] header = "original source" -> "original_source"
      [] header = "enriched date" -> "enriched_date"
      [] header = "campaign matter" -> "campaign_matter"
      [] OTHER -> header

\* the loop over the columns, from column j on
RECURSIVE ParseColumns(_, _, _, _)
ParseColumns(row, headers, j, persona) ==
    IF j > Len(headers) \/ j > Len(row) THEN persona
    ELSE LET header == headers[j]
             value == row[j]
             next ==
                IF ~Truthy(value) \/ Trim(value) = Str(<<>>) THEN persona
                ELSE IF header \in DOMAIN columnMapping
                THEN LET mappedProperty == columnMapping[header] IN
                     IF mappedProperty = "age"
                     THEN (mappedProperty :> Or(ParseInt(value), Num(0))) @@ persona
                     ELSE IF mappedProperty \in {"interests", "motivations", "barriers"}
                     THEN (mappedProperty :> SplitList(value)) @@ persona
                     ELSE (mappedProperty :> Trim(value)) @@ persona
                ELSE (Underscored(header) :> Trim(value)) @@ persona
         IN ParseColumns(row, headers, j + 1, next)

\* a row parser that gives a row without a name the name " "
parsePersonaFromRow_blankName(row, headers) ==
    LET persona == ParseColumns(row, headers, 1, EmptyRec) IN
    Obj([source |-> Text("julius_sheet"), imported_at |-> Text("now")] @@ persona
        @@ [name |-> Str(<<" ">>)])

\* null is Null; otherwise the persona object
parsePersonaFromRow(row, headers) ==
    LET persona == ParseColumns(row, headers, 1, EmptyRec) IN
    IF ~Truthy(Get(persona, "name")) THEN Null
    ELSE Obj([source |-> Text("julius_sheet"), imported_at |-> Text("now")] @@ persona)

RECURSIVE ParseRows(_, _, _)
ParseRows(rows, headers, n) ==
    IF n > Len(rows) THEN <<>>
    ELSE LET persona == parsePersonaFromRow(rows[n], headers) IN
         (IF Truthy(persona) /\ Truthy(Field(persona, "name")) THEN <<persona.obj>> ELSE <<>>)
         \o ParseRows(rows, headers, n + 1)

\* an import that answers a sheet without data rows with an empty list
fetchPersonasFromExternalSheet_emptyList(access, rows) ==
    CASE access = "forbidden" ->
            Threw(<<"Failed to access Julius personas sheet: ", "The caller does not have permission">>)
      [] access = "notfound" ->
            Threw(<<"Failed to access Julius personas sheet: ", "Requested entity was not found.">>)
      [] Len(rows) <= 1 -> Returned(<<>>)
      [] OTHER ->
            LET headers == [n \in 1..Len(rows[1]) |-> ToLowerTrim(rows[1][n].text)]
            IN Returned(ParseRows(rows, headers, 2))

\* access is how the spreadsheet API answers: "ok", "forbidden" or "notfound"
fetchPersonasFromExternalSheet(access, rows) ==
    CASE access = "forbidden" ->
            Threw(<<"Failed to access Julius personas sheet: ", "The caller does not have permission">>)
      [] access = "notfound" ->
            Threw(<<"Failed to access Julius personas sheet: ", "Requested entity was not found.">>)
      [] Len(rows) <= 1 ->
            Threw(<<"Failed to access Julius personas sheet: ",
                    "No persona data found in the sheet or only headers present">>)
      [] OTHER ->
            LET headers == [n \in 1..Len(rows[1]) |-> ToLowerTrim(rows[1][n].text)]
            IN Returned(ParseRows(rows, headers, 2))


----------------------------------------------------------------------------
(* Import validation: sheetsService validateSinglePersona, validatePersonas *)

MinAge == 0
MaxAge == 120

\* Number(v), as isNaN and the comparisons of an age convert it
ToNumber(v) ==
    CASE IsNum(v) -> v
      [] IsNull(v) -> Num(0)
      [] IsStr(v) ->
            LET t == TrimChars(v.str)
                negative == t # <<>> /\ Head(t) = "-"
                body == IF t # <<>> /\ Head(t) \in {"-", "+"} THEN Tail(t) ELSE t
                d == LeadingDigits(body, 0, 0)
            IN IF t = <<>> THEN Num(0)
               ELSE IF d[2] = 0 \/ d[2] # Len(body) THEN NaN
               ELSE Num(IF negative THEN 0 - d[1] ELSE d[1])
      [] OTHER -> NaN

\* a validator for which a persona without an age in [0,120] is invalid
SS_validateSinglePersona_ageRequired(persona) ==
    LET name == Get(persona, "name")
        age == Get(persona, "age")
        nameMissing == ~Truthy(name) \/ Trim(name) = Str(<<>>)
        ageWrong == ~IsNum(age) \/ age.num < MinAge \/ age.num > MaxAge
    IN [isValid |-> ~nameMissing /\ ~ageWrong,
        errors |-> If(nameMissing, <<"Name is required">>) \o If(ageWrong, <<"Age is required">>),
        warnings |-> <<>>]

SS_validateSinglePersona(persona) ==
    LET name == Get(persona, "name")
        age == Get(persona, "age")
        nameMissing == ~Truthy(name) \/ Trim(name) = Str(<<>>)
        ageNumber == ToNumber(age)
        ageUnusual == IsNaN(ageNumber) \/ ageNumber.num < MinAge \/ ageNumber.num > MaxAge
        interests == Get(persona, "interests")
    IN [isValid |-> ~nameMissing,
        errors |-> If(nameMissing, <<"Name is required">>),
        warnings |->
            If(~IsUndef(age) /\ ageUnusual, <<"Age seems unusual">>)
            \o If(IsUndef(age), <<"Age not provided">>)
            \o If(~Truthy(Get(persona, "location")), <<"Location not provided">>)
            \o If(~Truthy(Get(persona, "occupation")), <<"Occupation not provided">>)
            \o If(~Truthy(Get(persona, "bio")) /\ ~Truthy(Get(persona, "description")),
                  <<"No biography or description provided">>)
            \o If(~Truthy(interests) \/ (IsList(interests) /\ Len(interests.list) = 0),
                  <<"No interests provided">>)
            \o If(Truthy(interests) /\ ~IsList(interests), <<"Interests should be a list">>)
            \o If(Truthy(Get(persona, "motivations")) /\ ~IsList(Get(persona, "motivations")),
                  <<"Motivations should be a list">>)
            \o If(Truthy(Get(persona, "barriers")) /\ ~IsList(Get(persona, "barriers")),
                  <<"Barriers should be a list">>)]

\* the loop of validatePersonas from persona n on, v the validation so far
RECURSIVE SS_validateFrom(_, _, _)
SS_validateFrom(personas, n, v) ==
    IF n > Len(personas) THEN v
    ELSE LET persona == personas[n]
             personaValidation == SS_validateSinglePersona(persona)
             hasWarnings == Len(personaValidation.warnings) > 0
         IN SS_validateFrom(personas, n + 1,
              IF personaValidation.isValid
              THEN [v EXCEPT
                      !.valid = Append(@, persona),
                      !.summary.valid_personas = @ + 1,
                      !.warnings =
                          IF hasWarnings
                          THEN Append(@, [persona_name |-> Get(persona, "name"), row |-> n,
                                          warnings |-> personaValidation.warnings])
                          ELSE @,
                      !.summary.personas_with_warnings = IF hasWarnings THEN @ + 1 ELSE @]
              ELSE [v EXCEPT
                      !.errors =
                          Append(@, [persona_name |-> Or(Get(persona, "name"), Text("Row n")),
                                     row |-> n, errors |-> personaValidation.errors]),
                      !.summary.invalid_personas = @ + 1])

\* a validator whose summary starts with total_imported at 0
SS_validatePersonas_totalZero(personas) ==
    SS_validateFrom(personas, 1,
        [valid |-> <<>>, warnings |-> <<>>, errors |-> <<>>,
         summary |-> [total_imported |-> 0, valid_personas |-> 0,
                      personas_with_warnings |-> 0, invalid_personas |-> 0]])

SS_validatePersonas(personas) ==
    SS_validateFrom(personas, 1,
        [valid |-> <<>>, warnings |-> <<>>, errors |-> <<>>,
         summary |-> [total_imported |-> Len(personas), valid_personas |-> 0,
                      personas_with_warnings |-> 0, invalid_personas |-> 0]])


----------------------------------------------------------------------------
(* Spreadsheet export: sheetsService exportEnrichedPersonas *)

ExportHeaders ==
    <<"Name", "Age", "Gender", "Location", "Occupation", "Education", "Income",
      "Original Bio", "Interests", "Values", "Communication Style",
      "Social Media - Facebook", "Social Media - LinkedIn", "Social Media - Other",
      "Professional Background", "Community Involvement",
      "Legal Motivations", "Legal Barriers", "Legal Experience",
      "Preferred Legal Communication", "Decision Timeline", "Trust Factors",
      "Document Insights", "Enrichment Sources", "Confidence Score",
      "Original Source", "Enriched Date", "Campaign Matter">>

Empty == Str(<<>>)

RECURSIVE JoinChars(_, _)
JoinChars(items, sep) ==
    IF items = <<>> THEN <<>>
    ELSE IF Len(items) = 1 THEN Head(items).str
    ELSE Head(items).str \o sep \o JoinChars(Tail(items), sep)

\* list.join(sep): character by character when every item is a [str]
Join(v, sep) ==
    IF \A n \in 1..Len(v.list) : IsStr(v.list[n])
    THEN Str(JoinChars(v.list, sep))
    ELSE Text("joined items")

JoinIfList(v, sep) == IF IsList(v) THEN Join(v, sep) ELSE Empty

exportRow(persona, campaignData) ==
    LET P(k) == Get(persona, k)
        social == P("social_media_profiles")
        enrichment == P("enrichment")
    IN << Or(P("name"), Empty),
          Or(P("age"), Empty),
          Or(P("gender"), Empty),
          Or(P("location"), Empty),
          Or(P("occupation"), Empty),
          Or(P("education"), Empty),
          Or(P("income"), Empty),
          Or(P("bio"), Empty),
          IF IsList(P("interests")) THEN Join(P("interests"), <<";", " ">>)
                                    ELSE Or(P("interests"), Empty),
          IF IsList(P("values")) THEN Join(P("values"), <<";", " ">>)
                                 ELSE Or(P("values"), Empty),
          Or(P("communication_style"), Empty),
          IF Truthy(Field(social, "facebook")) THEN Text("Active: , Frequency: ") ELSE Empty,
          IF Truthy(Field(social, "linkedin")) THEN Text("Active: , Usage: ") ELSE Empty,
          IF Truthy(Field(social, "other_platforms"))
             THEN JoinIfList(Field(social, "other_platforms"), <<",", " ">>) ELSE Empty,
          Or(Field(P("professional_details"), "industry_experience"), Empty),
          JoinIfList(P("community_involvement"), <<";", " ">>),
          JoinIfList(P("legal_motivations"), <<";", " ">>),
          JoinIfList(P("legal_barriers"), <<";", " ">>),
          Or(Field(P("legal_profile"), "likely_legal_experience"), Empty),
          Or(P("preferred_legal_communication"), Empty),
          Or(P("decision_timeline"), Empty),
          JoinIfList(P("trust_factors_legal"), <<";", " ">>),
          JoinIfList(P("document_insights"), <<";", " ">>),
          IF Truthy(Field(enrichment, "sources"))
             THEN JoinIfList(Field(enrichment, "sources"), <<",", " ">>) ELSE Empty,
          Or(Field(enrichment, "confidence_score"), Empty),
          Or(P("source"), Text("julius_sheet")),
          Or(Field(enrichment, "enriched_at"),
             Or(Field(P("enrichment_metadata"), "enriched_at"), Empty)),
          Or(Get(campaignData, "matter"), Empty) >>

\* lines 460-519: the header row, then one row per persona
exportRows(enrichedPersonas, campaignData) ==
    <<[n \in 1..Len(ExportHeaders) |-> Text(ExportHeaders[n])]>>
    \o [n \in 1..Len(enrichedPersonas) |-> exportRow(enrichedPersonas[n], campaignData)]

\* line 452 calls initializeSheets, which the module neither defines nor imports
\* (the function it defines is initializeGoogleSheetsService): a ReferenceError
initializeSheets == Threw(<<"initializeSheets is not defined">>)

exportEnrichedPersonas(enrichedPersonas, campaignData) ==
    LET sheets == initializeSheets IN
    IF HasThrown(sheets)
    THEN Threw(<<"Export failed: ">> \o sheets.threw)
    ELSE LET rows == exportRows(enrichedPersonas, campaignData) IN
         Returned([success |-> TRUE,
                   sheet_url |-> Text("https://docs.google.com/spreadsheets/d/<id>"),
                   rows_exported |-> Len(rows) - 1])

\* what the sheet gives back for a cell written to it: a number in decimal
\* digits, a text as it is; objectCell is what becomes of an object or a list
StoredCell(cell, objectCell) ==
    CASE IsNum(cell) -> Str(NumToStr(cell.num))
      [] IsStr(cell) \/ IsText(cell) -> cell
      [] OTHER -> objectCell

StoredRows(rows, objectCell) ==
    [r \in 1..Len(rows) |-> [c \in 1..Len(rows[r]) |-> StoredCell(rows[r][c], objectCell)]]

----------------------------------------------------------------------------
(* Enrichment stages *)

Now == Text("now")

\* ...value in an object literal: the keys of an object, nothing otherwise
Spread(v) == IF IsObj(v) THEN v.obj ELSE EmptyRec

\* a model call: [kind |-> "fail", error |-> text] or a reply text
PEA_enrichSinglePersona(persona, call) ==
    IF call.kind = "fail"
    THEN Threw(<<"AI enrichment failed: ", call.error>>)
    ELSE LET enrichmentData == PEA_parseEnrichmentResponse(call) IN
         Returned(
            [enrichment |->
                Obj([status |-> Text("enriched"),
                     sources |-> List(<<Text("ai_research"), Text("social_analysis"),
                                        Text("professional_lookup")>>),
                     confidence_score |-> enrichmentData.confidence,
                     enriched_fields |-> enrichmentData.fieldsEnriched,
                     enriched_at |-> Now,
                     research_insights |-> enrichmentData.insights])]
            @@ Spread(enrichmentData.enrichedFields) @@ persona)

\* Stage A, one turn of the loop of enrichPersonas: the persona pushed
PEA_enrichPersonasItem(persona, call) ==
    LET r == PEA_enrichSinglePersona(persona, call) IN
    IF HasReturned(r) THEN r.returned
    ELSE [enrichment |->
            Obj([status |-> Text("failed"), error |-> [message |-> r.threw],
                 enriched_at |-> Now])]
         @@ persona

\* a Stage A loop that pushes nothing for a persona whose call failed
PEA_enrichPersonasTurn_skippingFailed(enrichedPersonas, persona, call) ==
    IF call.kind = "fail" THEN enrichedPersonas
    ELSE Append(enrichedPersonas, PEA_enrichPersonasItem(persona, call))

\* Stage A, one turn of the loop: enrichedPersonas after the push
PEA_enrichPersonasTurn(enrichedPersonas, persona, call) ==
    Append(enrichedPersonas, PEA_enrichPersonasItem(persona, call))

\* Stage B, one turn of the loop of enrichPersonas: the persona pushed
PA_enrichPersonasItem(persona, call, sourceContext) ==
    IF call.kind = "fail"
    THEN [enrichment_metadata |->
            Obj([enriched_by |-> Text("persona_agent"), enriched_at |-> Now,
                 enrichment_error |-> [message |-> <<call.error>>],
                 original_source |-> Or(Get(persona, "source"), Text("julius_sheet"))])]
         @@ persona
    ELSE LET enrichmentData == PA_parseEnrichmentResponse(call) IN
         [document_insights |-> enrichmentData.insights,
          legal_profile |-> enrichmentData.legal_profile,
          enrichment_metadata |->
            Obj([enriched_by |-> Text("persona_agent"), enriched_at |-> Now,
                 source_data_points |-> Num(sourceContext.total_sources),
                 confidence_improvement |-> enrichmentData.confidence_delta,
                 original_source |-> Or(Get(persona, "source"), Text("julius_sheet"))])]
         @@ Spread(enrichmentData.additions) @@ persona

\* Stage B, one turn of the loop: enrichedPersonas after the push
PA_enrichPersonasTurn(enrichedPersonas, persona, call, sourceContext) ==
    Append(enrichedPersonas, PA_enrichPersonasItem(persona, call, sourceContext))

----------------------------------------------------------------------------
(* Research collector: researchAgent conductResearch, with the four topic  *)
(* queries' outcomes given: "ok" (content parsed), "unparsable" (content   *)
(* that JSON.parse rejects) or "fail" (HTTP error, timeout, empty content) *)

Topics == <<"demographics", "social_insights", "legal_trends", "consumer_behavior">>

makePerplexityRequest(requestType, outcome) ==
    CASE outcome = "ok" ->
            Returned(Obj([data |-> Text("parsed"), _raw_response |-> Text("content"),
                          _request_type |-> Text(requestType)]))
      [] outcome = "unparsable" ->
            Returned(Obj([_raw_response |-> Text("content"),
                          _request_type |-> Text(requestType),
                          _parse_error |-> Text("SyntaxError"),
                          error |-> Text("Could not parse structured response")]))
      [] OTHER -> Threw(<<"Perplexity API request failed">>)

conductResearch(perplexityKey, outcomes) ==
    IF ~perplexityKey
    THEN Obj([error |-> Text("Research API not configured")])
    ELSE LET research == [n \in 1..Len(Topics) |-> makePerplexityRequest(Topics[n], outcomes[Topics[n]])]
         IN IF \E n \in 1..Len(Topics) : HasThrown(research[n])
            THEN Obj([error |-> Text("Perplexity API request failed"), partial_data |-> Null])
            ELSE Obj([demographics |-> research[1].returned,
                      social_insights |-> research[2].returned,
                      legal_trends |-> research[3].returned,
                      consumer_behavior |-> research[4].returned,
                      research_timestamp |-> Now,
                      case_type |-> Text("matter"),
                      keywords |-> Text("keywords")])

----------------------------------------------------------------------------
(* POST /generate: api/generate-personas-v2.js handler and                 *)
(* handlePersonaEnrichment                                                 *)

WellFormedUrl == Text("https://docs.google.com/spreadsheets/d/abc123")
MalformedUrl == Text("https://example.com/sheet")

\* sheetsUrlPattern.test(url), and the URL checks after it, which a text
\* matching the pattern always passes
sheetsUrlPattern(url) == url = WellFormedUrl

\* a selection by the mere presence of the form field, empty or not
isEnrichmentMode_fieldGiven(julius_personas_sheet_url) == ~IsUndef(julius_personas_sheet_url)

isEnrichmentMode(julius_personas_sheet_url) == Truthy(julius_personas_sheet_url)

\* the substrings, among those the handler looks for, that a message part holds
Substrings(part) ==
    CASE part = "Failed to access Julius personas sheet: " -> {"access"}
      [] part = "The caller does not have permission" -> {"permission"}
      [] part = "Requested entity was not found." -> {"not found"}
      [] part = "No persona data found in the sheet or only headers present" ->
            {"No persona data found"}
      [] OTHER -> {}

\* message.includes(word), the word lying within one part
Includes(message, word) == \E n \in 1..Len(message) : word \in Substrings(message[n])

\* lines 432-444
sheetErrorMessage(message) ==
    IF Includes(message, "permission") \/ Includes(message, "access") \/ Includes(message, "403")
    THEN "Permission denied accessing Julius sheet"
    ELSE IF Includes(message, "not found") \/ Includes(message, "404")
    THEN "Julius sheet not found"
    ELSE IF Includes(message, "No persona data found")
    THEN "Empty personas sheet"
    ELSE "Failed to access Julius personas sheet"

Response(status, body) == [status |-> status, body |-> body]

NoValidation ==
    [valid |-> <<>>, warnings |-> <<>>, errors |-> <<>>,
     summary |-> [total_imported |-> 0, valid_personas |-> 0,
                  personas_with_warnings |-> 0, invalid_personas |-> 0]]

campaignData == [matter |-> Text("matter"), keywords |-> Text("keywords"),
                 target_description |-> Text("target")]

\* uploadedData as both workflows hand it on: an array (in generation mode the
\* file step ends in its own catch, mri_file_url not being declared; in
\* enrichment mode it is analyzeFiles' array), so it has none of the keys
\* buildSourceContext reads
uploadedDataArray == List(<<>>)


(* What the handler is run on *)

SeqsUpTo(S, n) == UNION {[1..k -> S] : k \in 0..n}

Requests ==
    {r \in [method : {"OPTIONS", "GET", "POST"},
            parse : {"ok", "fail"},
            fields : BOOLEAN,
            julius_personas_sheet_url : {Undef, Empty, MalformedUrl, WellFormedUrl},
            files : BOOLEAN] :
        /\ r.method # "POST" =>
              r.parse = "ok" /\ r.fields /\ IsUndef(r.julius_personas_sheet_url) /\ ~r.files
        /\ r.parse = "fail" => r.fields /\ IsUndef(r.julius_personas_sheet_url) /\ ~r.files
        /\ ~r.fields => ~r.files}

Envs == [ANTHROPIC_API_KEY : BOOLEAN, PERPLEXITY_API_KEY : BOOLEAN]

SheetHeaderRow == <<Text("Name"), Text(" Age "), Text("communication style"), Text("Enrichment")>>

DataRows ==
    { <<Str(<<"a">>), Str(<<"4", "5">>), Str(<<"b">>)>>,
      <<Str(<<" ">>), Str(<<"3", "0">>)>>,
      <<Str(<<" ", "b", " ">>), Str(<<"1", "5", "0">>), Empty, Str(<<"a">>)>> }

Sheets == {<<>>} \cup {<<SheetHeaderRow>> \o rows : rows \in SeqsUpTo(DataRows, MaxRows)}

SheetAccess == {"ok", "forbidden", "notfound"}

Json(r) == [kind |-> "json", json |-> r]
Fail(e) == [kind |-> "fail", error |-> e]

HandlerCallsA ==
    { Fail("overloaded"),
      [kind |-> "nojson"],
      Json([enrichedFields |-> Obj([communication_style |->
                                       Obj([formality_level |-> Text("casual")])]),
            confidence |-> Num(14)]),
      Json([enrichedFields |-> Obj([name |-> Str(<<"z">>)]), confidence |-> Num(5)]) }

HandlerCallsB ==
    { Fail("overloaded"),
      Json([additions |-> Obj([legal_motivations |-> List(<<Text("compensation")>>)]),
            confidence_delta |-> Num(2)]),
      Json([additions |-> Obj([enrichment |-> Obj([status |-> Text("pending")])])]) }

AllTopics(outcome) == [t \in {Topics[n] : n \in 1..Len(Topics)} |-> outcome]

HandlerResearchOutcomes ==
    { AllTopics("ok"),
      [AllTopics("ok") EXCEPT !["social_insights"] = "unparsable"],
      [AllTopics("ok") EXCEPT !["consumer_behavior"] = "fail"] }

HandlerGenCalls ==
    { Fail("overloaded"), [kind |-> "nojson"], [kind |-> "json", json |-> <<>>],
      [kind |-> "json",
       json |-> <<Obj([name |-> Str(<<"a">>), age |-> Num(45), bio |-> Chars(150),
                       motivations |-> List(<<Text("x")>>),
                       barriers |-> List(<<Text("x")>>),
                       communication_style |-> Text("direct"),
                       confidence_score |-> Num(85),
                       data_sources |-> List(<<Text("x")>>)])>>] }

----------------------------------------------------------------------------
(* The handler's steps *)

Init ==
    /\ pc = "start"
    /\ req \in Requests
    /\ env \in Envs
    /\ sheet = [access |-> "none", rows |-> <<>>]
    /\ importedPersonas = <<>>
    /\ validation = NoValidation
    /\ socialEnrichedPersonas = <<>>
    /\ finalEnrichedPersonas = <<>>
    /\ i = 0
    /\ handlerResearchData = Undef
    /\ responses = <<>>
    /\ calls = <<>>
    /\ fin = Undef /\ fout = Undef /\ fpc = "idle"

Send(status, body) ==
    /\ responses' = Append(responses, Response(status, body))
    /\ pc' = "done"

Goto(next) == pc' = next /\ UNCHANGED responses

Called(name) == calls' = Append(calls, name)

\* lines 63-65
HandleOptions ==
    /\ pc = "start" /\ req.method = "OPTIONS"
    /\ Send(200, EmptyRec)
    /\ UNCHANGED <<req, env, sheet, importedPersonas, validation, socialEnrichedPersonas,
                   finalEnrichedPersonas, i, handlerResearchData, calls, funcVars>>

\* lines 67-69
MethodNotAllowed ==
    /\ pc = "start" /\ req.method \notin {"OPTIONS", "POST"}
    /\ Send(405, [error |-> "Method not allowed"])
    /\ UNCHANGED <<req, env, sheet, importedPersonas, validation, socialEnrichedPersonas,
                   finalEnrichedPersonas, i, handlerResearchData, calls, funcVars>>

\* lines 76-86
ParseFormFails ==
    /\ pc = "start" /\ req.method = "POST" /\ req.parse = "fail"
    /\ Send(400, [error |-> "Failed to parse form data", details |-> "parseError.message"])
    /\ UNCHANGED <<req, env, sheet, importedPersonas, validation, socialEnrichedPersonas,
                   finalEnrichedPersonas, i, handlerResearchData, calls, funcVars>>

Parsed == pc = "start" /\ req.method = "POST" /\ req.parse = "ok"

\* lines 118-125
MissingRequiredFields ==
    /\ Parsed /\ ~req.fields
    /\ Send(400, [error |-> "Missing required fields",
                  message |-> "Matter, keywords, and target description are required"])
    /\ UNCHANGED <<req, env, sheet, importedPersonas, validation, socialEnrichedPersonas,
                   finalEnrichedPersonas, i, handlerResearchData, calls, funcVars>>

\* lines 127-158
InvalidSheetsUrl ==
    /\ Parsed /\ req.fields
    /\ Truthy(req.julius_personas_sheet_url)
    /\ ~sheetsUrlPattern(req.julius_personas_sheet_url)
    /\ Send(400, [error |-> "Invalid Google Sheets URL", sessionId |-> TRUE])
    /\ UNCHANGED <<req, env, sheet, importedPersonas, validation, socialEnrichedPersonas,
                   finalEnrichedPersonas, i, handlerResearchData, calls, funcVars>>

Validated ==
    /\ Parsed /\ req.fields
    /\ Truthy(req.julius_personas_sheet_url) => sheetsUrlPattern(req.julius_personas_sheet_url)

\* lines 162-176: the enrichment workflow is entered
StartEnrichment ==
    /\ Validated
    /\ isEnrichmentMode(req.julius_personas_sheet_url)
    /\ Goto("enrich_import")
    /\ Called("handlePersonaEnrichment")
    /\ UNCHANGED <<req, env, sheet, importedPersonas, validation, socialEnrichedPersonas,
                   finalEnrichedPersonas, i, handlerResearchData, funcVars>>

\* lines 178-301: the generation workflow is entered; the file step changes
\* nothing (its errors end in its own catch)
StartGeneration ==
    /\ Validated
    /\ ~isEnrichmentMode(req.julius_personas_sheet_url)
    /\ Goto("gen_research")
    /\ Called("generation workflow")
    /\ UNCHANGED <<req, env, sheet, importedPersonas, validation, socialEnrichedPersonas,
                   finalEnrichedPersonas, i, handlerResearchData, funcVars>>


HasKey == env.ANTHROPIC_API_KEY

\* a catch that ends the request without sending anything
EnrichmentFailed_unanswered(message) == pc' = "done" /\ UNCHANGED responses

\* the catch of handlePersonaEnrichment, lines 632-642
EnrichmentFailed(message) ==
    Send(500, [error |-> "ENRICHMENT_FAILED", message |-> message, sessionId |-> TRUE])

\* the handler's outer catch, lines 390-400
ProcessingFailed(message) ==
    Send(500, [error |-> "PROCESSING_FAILED", message |-> message, sessionId |-> TRUE])

\* lines 422-505: import, the empty check, validation
ImportPersonas ==
    /\ pc = "enrich_import"
    /\ \E access \in SheetAccess, rows \in Sheets :
          LET fetched == fetchPersonasFromExternalSheet(access, rows)
              checked == IF HasReturned(fetched) THEN SS_validatePersonas(fetched.returned)
                         ELSE NoValidation
          IN /\ sheet' = [access |-> access, rows |-> rows]
             /\ Called("fetchPersonasFromExternalSheet")
             /\ importedPersonas' = IF HasReturned(fetched) THEN fetched.returned ELSE <<>>
             /\ validation' = checked
             /\ CASE HasThrown(fetched) ->
                        Send(400, [error |-> "SHEET_ACCESS_FAILED",
                                   message |-> sheetErrorMessage(fetched.threw),
                                   sessionId |-> TRUE])
                  [] HasReturned(fetched) /\ Len(fetched.returned) = 0 ->
                        Send(400, [error |-> "EMPTY_PERSONAS_SHEET",
                                   message |-> "No personas found in the Julius sheet",
                                   sessionId |-> TRUE])
                  [] OTHER ->
                        IF checked.summary.valid_personas = 0
                        THEN Send(400, [error |-> "NO_VALID_PERSONAS",
                                        message |-> "No valid personas found in the Julius sheet after validation",
                                        sessionId |-> TRUE])
                        ELSE Goto("enrich_documents")
    /\ UNCHANGED <<req, env, socialEnrichedPersonas, finalEnrichedPersonas, i,
                   handlerResearchData, funcVars>>

\* lines 515-547: with file URLs the document module is imported, outside of
\* any inner try; whether that import succeeds is not decided by this code
ProcessDocuments ==
    /\ pc = "enrich_documents"
    /\ \E documents \in IF req.files THEN {"analyzed", "import fails"} ELSE {"none"} :
          IF documents = "import fails"
          THEN EnrichmentFailed(<<"Cannot find module">>)
          ELSE Goto("enrich_research")
    /\ UNCHANGED <<req, env, sheet, importedPersonas, validation, socialEnrichedPersonas,
                   finalEnrichedPersonas, i, handlerResearchData, calls, funcVars>>

\* lines 552-553
ConductResearchForEnrichment ==
    /\ pc = "enrich_research"
    /\ \E outcomes \in HandlerResearchOutcomes :
          handlerResearchData' = conductResearch(env.PERPLEXITY_API_KEY, outcomes)
    /\ Goto("enrich_agent")
    /\ UNCHANGED <<req, env, sheet, importedPersonas, validation, socialEnrichedPersonas,
                   finalEnrichedPersonas, i, calls, funcVars>>

\* lines 559-560 and the agent's constructor: without a key the SDK client
\* either is constructed (its calls then fail) or refuses construction
ConstructAgent ==
    /\ pc = "enrich_agent"
    /\ \E constructed \in IF HasKey THEN {TRUE} ELSE BOOLEAN :
          IF constructed
          THEN Goto("stageA") /\ i' = 1
          ELSE EnrichmentFailed(<<"Anthropic API key is missing">>) /\ UNCHANGED i
    /\ UNCHANGED <<req, env, sheet, importedPersonas, validation, socialEnrichedPersonas,
                   finalEnrichedPersonas, handlerResearchData, calls, funcVars>>

\* one turn of the loop of PersonaEnrichmentAgent.enrichPersonas (lines 24-50)
StageAItem ==
    /\ pc = "stageA" /\ i <= Len(validation.valid)
    /\ \E call \in IF HasKey THEN HandlerCallsA ELSE {Fail("authentication_error")} :
          socialEnrichedPersonas' =
              PEA_enrichPersonasTurn(socialEnrichedPersonas, validation.valid[i], call)
    /\ i' = i + 1
    /\ Goto("stageA")
    /\ UNCHANGED <<req, env, sheet, importedPersonas, validation, finalEnrichedPersonas,
                   handlerResearchData, calls, funcVars>>

\* a handler that calls Stage B once Stage A has made its first persona
StageBBegin_afterFirst ==
    /\ pc = "stageA" /\ i > 1
    /\ IF HasKey
       THEN Goto("stageB") /\ i' = 1
       ELSE EnrichmentFailed(<<"Anthropic API key not configured">>) /\ UNCHANGED i
    /\ UNCHANGED <<req, env, sheet, importedPersonas, validation, socialEnrichedPersonas,
                   finalEnrichedPersonas, handlerResearchData, calls, funcVars>>

\* Stage A returns (line 53); Stage B is called and checks the key
\* (personaAgent lines 389-392)
StageBBegin ==
    /\ pc = "stageA" /\ i > Len(validation.valid)
    /\ IF HasKey
       THEN Goto("stageB") /\ i' = 1
       ELSE EnrichmentFailed(<<"Anthropic API key not configured">>) /\ UNCHANGED i
    /\ UNCHANGED <<req, env, sheet, importedPersonas, validation, socialEnrichedPersonas,
                   finalEnrichedPersonas, handlerResearchData, calls, funcVars>>

\* one turn of the loop of personaAgent enrichPersonas (lines 406-465)
StageBItem ==
    /\ pc = "stageB" /\ i <= Len(socialEnrichedPersonas)
    /\ \E call \in HandlerCallsB :
          finalEnrichedPersonas' =
              PA_enrichPersonasTurn(finalEnrichedPersonas, socialEnrichedPersonas[i], call,
                  buildSourceContext(uploadedDataArray, handlerResearchData))
    /\ i' = i + 1
    /\ Goto("stageB")
    /\ UNCHANGED <<req, env, sheet, importedPersonas, validation, socialEnrichedPersonas,
                   handlerResearchData, calls, funcVars>>

\* Stage B returns; lines 592-630: the export and the success response
ExportAndRespond ==
    /\ pc = "stageB" /\ i > Len(socialEnrichedPersonas)
    /\ LET exportResult == exportEnrichedPersonas(finalEnrichedPersonas, campaignData) IN
       IF HasThrown(exportResult)
       THEN EnrichmentFailed(exportResult.threw)
       ELSE Send(200, [success |-> TRUE, sessionId |-> TRUE, mode |-> "enrichment",
                       personas |-> finalEnrichedPersonas,
                       rows_exported |-> exportResult.returned.rows_exported])
    /\ Called("exportEnrichedPersonas")
    /\ UNCHANGED <<req, env, sheet, importedPersonas, validation, socialEnrichedPersonas,
                   finalEnrichedPersonas, i, handlerResearchData, funcVars>>

\* lines 303-334
ConductResearchForGeneration ==
    /\ pc = "gen_research"
    /\ \E outcomes \in HandlerResearchOutcomes :
          handlerResearchData' = conductResearch(env.PERPLEXITY_API_KEY, outcomes)
    /\ Goto("gen_personas")
    /\ UNCHANGED <<req, env, sheet, importedPersonas, validation, socialEnrichedPersonas,
                   finalEnrichedPersonas, i, calls, funcVars>>

\* lines 336-400
GeneratePersonas ==
    /\ pc = "gen_personas"
    /\ \E call \in HandlerGenCalls :
          LET begun == generatePersonasBegin(HasKey, uploadedDataArray, handlerResearchData)
              personaResult == IF HasThrown(begun) THEN begun
                               ELSE generatePersonasEnd(begun.returned, call)
          IN IF HasThrown(personaResult)
             THEN ProcessingFailed(personaResult.threw)
             ELSE IF "success" \notin DOMAIN personaResult.returned
             THEN Send(422, personaResult.returned)
             ELSE Send(200, [success |-> TRUE, sessionId |-> TRUE,
                             personas |-> personaResult.returned.personas])
    /\ Called("generatePersonas")
    /\ UNCHANGED <<req, env, sheet, importedPersonas, validation, socialEnrichedPersonas,
                   finalEnrichedPersonas, i, handlerResearchData, funcVars>>

Next ==
    \/ HandleOptions \/ MethodNotAllowed \/ ParseFormFails \/ MissingRequiredFields
    \/ InvalidSheetsUrl \/ StartEnrichment \/ StartGeneration
    \/ ImportPersonas \/ ProcessDocuments \/ ConductResearchForEnrichment
    \/ ConstructAgent \/ StageAItem \/ StageBBegin \/ StageBItem \/ ExportAndRespond
    \/ ConductResearchForGeneration \/ GeneratePersonas

Spec == Init /\ [][Next]_vars


----------------------------------------------------------------------------
(* Properties of the handler                                               *)

Made == {calls[n] : n \in 1..Len(calls)}

Status(persona) == Field(Get(persona, "enrichment"), "status")

Exported == pc = "done" /\ "exportEnrichedPersonas" \in Made

\* C1: after Stage A and Stage B, whatever the model replied or however it
\* failed, every output persona has enrichment.status "enriched" or "failed"
\* and the name its input persona had
C1_StatusAndNameKept ==
    \A n \in 1..Len(finalEnrichedPersonas) :
        /\ Status(finalEnrichedPersonas[n]) \in {Text("enriched"), Text("failed")}
        /\ Get(finalEnrichedPersonas[n], "name") = Get(validation.valid[n], "name")

\* what a stage's output shares with the input it was made from: the reply
\* sets name no age
From(output, input) == Get(output, "age") = Get(input, "age")

\* C4: each stage emits exactly one persona per input persona, in input
\* order, a failed call on one persona holding up none of the later ones
C4_OneOutputPerInputInOrder ==
    /\ pc = "stageA" => Len(socialEnrichedPersonas) = i - 1
    /\ pc = "stageB" =>
          /\ Len(socialEnrichedPersonas) = Len(validation.valid)
          /\ Len(finalEnrichedPersonas) = i - 1
    /\ Exported =>
          /\ Len(socialEnrichedPersonas) = Len(validation.valid)
          /\ Len(finalEnrichedPersonas) = Len(socialEnrichedPersonas)
    /\ \A n \in 1..Len(socialEnrichedPersonas) :
          n <= Len(validation.valid) /\ From(socialEnrichedPersonas[n], validation.valid[n])
    /\ \A n \in 1..Len(finalEnrichedPersonas) :
          n <= Len(socialEnrichedPersonas)
          /\ From(finalEnrichedPersonas[n], socialEnrichedPersonas[n])

\* both stages done on two personas of different ages, the first one's call
\* having failed in each stage and the second one's succeeded in Stage A
C4_FailedFirstThenSecond ==
    /\ pc = "stageB" /\ i > Len(socialEnrichedPersonas)
    /\ Len(finalEnrichedPersonas) = 2
    /\ Get(validation.valid[1], "age") # Get(validation.valid[2], "age")
    /\ Status(socialEnrichedPersonas[1]) = Text("failed")
    /\ Status(socialEnrichedPersonas[2]) = Text("enriched")
    /\ "enrichment_error" \in DOMAIN Get(finalEnrichedPersonas[1], "enrichment_metadata").obj

FailedInA(n) == Status(socialEnrichedPersonas[n]) = Text("failed")

FailedInB(n) ==
    "enrichment_error" \in DOMAIN Get(finalEnrichedPersonas[n], "enrichment_metadata").obj

\* C5: a persona whose Stage A or Stage B call failed is emitted with every
\* field it had before that stage, each with its value unchanged
C5_FailureKeepsEveryField ==
    /\ \A n \in 1..Len(socialEnrichedPersonas) :
          FailedInA(n) =>
             \A k \in DOMAIN validation.valid[n] :
                Get(socialEnrichedPersonas[n], k) = validation.valid[n][k]
    /\ \A n \in 1..Len(finalEnrichedPersonas) :
          FailedInB(n) =>
             \A k \in DOMAIN socialEnrichedPersonas[n] :
                Get(finalEnrichedPersonas[n], k) = socialEnrichedPersonas[n][k]

PassedValidation ==
    /\ req.method = "POST" /\ req.parse = "ok" /\ req.fields
    /\ req.julius_personas_sheet_url \in {Undef, Empty, WellFormedUrl}

EnrichmentSteps ==
    {"handlePersonaEnrichment", "fetchPersonasFromExternalSheet", "exportEnrichedPersonas"}

GenerationSteps == {"generation workflow", "generatePersonas"}

\* C9: a request that passed input validation runs exactly one workflow:
\* enrichment if and only if julius_personas_sheet_url is given and non-empty,
\* generation otherwise; no step of the other workflow is ever taken
C9_ExactlyOneWorkflow ==
    /\ ~PassedValidation => Made = {}
    /\ (PassedValidation /\ pc # "start") =>
          IF req.julius_personas_sheet_url \notin {Undef, Empty}
          THEN /\ "handlePersonaEnrichment" \in Made
               /\ Made \cap GenerationSteps = {}
               /\ pc \notin {"gen_research", "gen_personas"}
          ELSE /\ "generation workflow" \in Made
               /\ Made \cap EnrichmentSteps = {}
               /\ pc \in {"gen_research", "gen_personas", "done"}
               /\ sheet.access = "none"
               /\ socialEnrichedPersonas = <<>> /\ finalEnrichedPersonas = <<>>

\* a request with an empty julius_personas_sheet_url got through the generator
C9_EmptyUrlGenerates ==
    /\ pc = "done" /\ req.julius_personas_sheet_url = Empty
    /\ "generatePersonas" \in Made

\* the sheet was read and none of its data rows has a name
ZeroPersonaRows ==
    /\ sheet.access = "ok"
    /\ \A n \in 2..Len(sheet.rows) : TrimChars(sheet.rows[n][1].str) = <<>>

\* C10: in enrichment mode a sheet that yields zero persona rows (empty,
\* header only, no row with a name) is answered with the error code
\* EMPTY_PERSONAS_SHEET
C10_ZeroRowsEmptyPersonasSheet ==
    ZeroPersonaRows =>
        /\ Len(responses) = 1
        /\ responses[1].body.error = "EMPTY_PERSONAS_SHEET"

\* C10, as the code has it: a sheet that yields zero persona rows is answered
\* with status 400 and never with a success; the error code is
\* SHEET_ACCESS_FAILED for an empty or header-only sheet and
\* EMPTY_PERSONAS_SHEET for data rows none of which has a name
C10_ZeroRowsError ==
    ZeroPersonaRows =>
        /\ pc = "done" /\ Len(responses) = 1
        /\ responses[1].status = 400
        /\ "success" \notin DOMAIN responses[1].body
        /\ responses[1].body.error =
              IF Len(sheet.rows) <= 1 THEN "SHEET_ACCESS_FAILED" ELSE "EMPTY_PERSONAS_SHEET"

\* a header-only sheet was answered
C10_HeaderOnlyAnswered ==
    /\ ZeroPersonaRows /\ Len(sheet.rows) = 1
    /\ Len(responses) = 1 /\ responses[1].body.error = "SHEET_ACCESS_FAILED"


----------------------------------------------------------------------------
(* The functions on their own: fin is the input, fout the outcome, fpc the *)
(* position; the handler stays idle                                        *)

IdleHandler ==
    /\ pc = "idle"
    /\ req = [method |-> "none"]
    /\ env = [ANTHROPIC_API_KEY |-> FALSE, PERPLEXITY_API_KEY |-> FALSE]
    /\ sheet = [access |-> "none", rows |-> <<>>]
    /\ importedPersonas = <<>>
    /\ validation = NoValidation
    /\ socialEnrichedPersonas = <<>>
    /\ finalEnrichedPersonas = <<>>
    /\ i = 0
    /\ handlerResearchData = Undef
    /\ responses = <<>>
    /\ calls = <<>>

(* The three parsers and Stage A's use of its parser *)

RepliesPersonas ==
    { [kind |-> "nojson"], [kind |-> "badjson"], Json(<<>>),
      Json(<<Obj([name |-> Str(<<"a">>), age |-> Num(45)])>>) }

ParseInput(parser, replies) == {[parser |-> parser, reply |-> r] : r \in replies}

ParsedPersona == [name |-> Str(<<"a">>), age |-> Num(45), source |-> Text("julius_sheet")]

InitParse ==
    /\ IdleHandler
    /\ \/ fin \in ParseInput("stageA", RepliesA)
       \/ fin \in ParseInput("stageB", RepliesB)
       \/ fin \in ParseInput("personas", RepliesPersonas)
    /\ fout = Undef
    /\ fpc = "reply"

ParseStageA ==
    /\ fpc = "reply" /\ fin.parser = "stageA"
    /\ fout' = Returned(PEA_parseEnrichmentResponse(fin.reply))
    /\ fpc' = "parsed"
    /\ UNCHANGED <<fin, handlerVars, calls>>

ParseStageB ==
    /\ fpc = "reply" /\ fin.parser = "stageB"
    /\ fout' = Returned(PA_parseEnrichmentResponse(fin.reply))
    /\ fpc' = "parsed"
    /\ UNCHANGED <<fin, handlerVars, calls>>

ParsePersonas ==
    /\ fpc = "reply" /\ fin.parser = "personas"
    /\ fout' = parsePersonaResponse(fin.reply)
    /\ fpc' = "parsed"
    /\ UNCHANGED <<fin, handlerVars, calls>>

\* enrichSinglePersona on the reply: parse, merge, attach the enrichment block
EnrichSingleStageA ==
    /\ fpc = "reply" /\ fin.parser = "stageA"
    /\ fout' = PEA_enrichSinglePersona(ParsedPersona, fin.reply)
    /\ fpc' = "enriched"
    /\ UNCHANGED <<fin, handlerVars, calls>>

NextParse == ParseStageA \/ ParseStageB \/ ParsePersonas \/ EnrichSingleStageA

SpecParse == InitParse /\ [][NextParse]_vars

\* the reply text holds no JSON, holds invalid JSON, or lacks a required key
Unparseable ==
    \/ fin.reply.kind # "json"
    \/ /\ fin.parser = "stageA"
       /\ {"enrichedFields", "confidence"} \ DOMAIN fin.reply.json # {}

\* the confidence a parser's result carries
ConfidenceOf(parsed) ==
    IF "confidence" \in DOMAIN parsed THEN parsed.confidence ELSE parsed.confidence_delta

\* C2: on a reply that cannot be parsed, each of the three parsers returns a
\* fallback object whose confidence is at most 0.3, and raises nothing
C2_UnparseableGivesFallback ==
    (fpc = "parsed" /\ Unparseable) =>
        /\ HasReturned(fout)
        /\ ConfidenceOf(fout.returned).num <= 3

\* C3: a Stage A reply with enrichedFields and a numeric confidence c is
\* stored with enrichment.confidence_score = min(max(c, 0), 1), c being
\* negative, zero, within [0,1] or above 1
C3_ConfidenceStoredClamped ==
    (/\ fpc = "enriched"
     /\ fin.reply.kind = "json"
     /\ "enrichedFields" \in DOMAIN fin.reply.json
     /\ "confidence" \in DOMAIN fin.reply.json) =>
        LET c == fin.reply.json.confidence.num IN
        /\ HasReturned(fout)
        /\ Field(fout.returned.enrichment, "confidence_score") =
              Num(IF c < 0 THEN 0 ELSE IF c > 10 THEN 10 ELSE c)


----------------------------------------------------------------------------
(* The import validator on batches of personas *)

Listed == List(<<Text("x")>>)

ValidatorNames == {Undef, Str(<<" ">>), Str(<<"a">>)}

ValidatorAges == {Undef, Num(0 - 1), Num(120), Num(150)}

ValidatorRests ==
    { EmptyRec,
      [location |-> Text("x"), occupation |-> Text("x"), bio |-> Text("x"),
       interests |-> Listed, motivations |-> Listed, barriers |-> Listed],
      [location |-> Text("x"), occupation |-> Text("x"), description |-> Text("x"),
       interests |-> List(<<>>)],
      [location |-> Text("x"), bio |-> Text("x"), interests |-> Text("x"),
       barriers |-> Text("x")],
      [occupation |-> Text("x"), bio |-> Text("x"), interests |-> Listed,
       motivations |-> Text("x")] }

ValidatorPersonas ==
    {Only("name", nm) @@ Only("age", ag) @@ rest :
        nm \in ValidatorNames, ag \in ValidatorAges, rest \in ValidatorRests}

InitValidate ==
    /\ IdleHandler
    /\ fin \in SeqsUpTo(ValidatorPersonas, MaxBatch)
    /\ fout = Undef
    /\ fpc = "batch"

ValidateImported ==
    /\ fpc = "batch"
    /\ fout' = SS_validatePersonas(fin)
    /\ fpc' = "validated"
    /\ UNCHANGED <<fin, handlerVars, calls>>

NextValidate == ValidateImported

SpecValidate == InitValidate /\ [][NextValidate]_vars

NameGiven(persona) == "name" \in DOMAIN persona /\ TrimChars(persona.name.str) # <<>>

Has(persona, k) == k \in DOMAIN persona

NotListed(persona, k) == Has(persona, k) /\ ~IsList(persona[k])

\* the warnings the soft conditions of a persona call for
WarningsDue(persona) ==
    {w \in {"Age not provided", "Age seems unusual", "Location not provided",
            "Occupation not provided", "No biography or description provided",
            "No interests provided", "Interests should be a list",
            "Motivations should be a list", "Barriers should be a list"} :
        CASE w = "Age not provided" -> ~Has(persona, "age")
          [] w = "Age seems unusual" ->
                Has(persona, "age") /\ (persona.age.num < 0 \/ persona.age.num > 120)
          [] w = "Location not provided" -> ~Has(persona, "location")
          [] w = "Occupation not provided" -> ~Has(persona, "occupation")
          [] w = "No biography or description provided" ->
                ~Has(persona, "bio") /\ ~Has(persona, "description")
          [] w = "No interests provided" ->
                ~Has(persona, "interests") \/ persona.interests = List(<<>>)
          [] w = "Interests should be a list" -> NotListed(persona, "interests")
          [] w = "Motivations should be a list" -> NotListed(persona, "motivations")
          [] OTHER -> NotListed(persona, "barriers")}

WarningsAt(n) ==
    UNION {{fout.warnings[e].warnings[m] : m \in 1..Len(fout.warnings[e].warnings)} :
              e \in {e \in 1..Len(fout.warnings) : fout.warnings[e].row = n}}

----------------------------------------------------------------------------
(* The generator on its own: the steps before the model call, then the     *)
(* steps from the model call on                                            *)

GeneratedComplete ==
    [name |-> Str(<<"a">>), age |-> Num(45), bio |-> Chars(150),
     motivations |-> Listed, barriers |-> Listed,
     communication_style |-> Text("direct"), confidence_score |-> Num(85),
     data_sources |-> Listed]

GeneratedItems ==
    { Obj(GeneratedComplete),
      Obj([GeneratedComplete EXCEPT !.confidence_score = Num(60), !.bio = Chars(40),
                                    !.data_sources = List(<<>>)]),
      Obj([name |-> Str(<<"b">>), age |-> Num(30), bio |-> Chars(150),
           confidence_score |-> Num(85), data_sources |-> Listed]),
      Obj([GeneratedComplete EXCEPT !.age = Num(0)]),
      Text("x") }

GeneratorCalls ==
    {Fail("overloaded"), [kind |-> "nojson"], [kind |-> "badjson"]}
    \cup {Json(items) : items \in SeqsUpTo(GeneratedItems, MaxGenerated)}

GeneratorUploads == {Undef, List(<<>>), Obj([mri_data |-> Text("x")])}

GeneratorResearch ==
    { Undef,
      Obj([error |-> Text("Research API not configured")]),
      Obj([demographics |-> Obj([data |-> Text("parsed")]),
           social_insights |-> Obj([data |-> Text("parsed")])]),
      Obj([consumer_behavior |-> Obj([data |-> Text("parsed")])]) }

InitGen ==
    /\ IdleHandler
    /\ fin \in [apiKey : BOOLEAN, uploadedData : GeneratorUploads,
                researchData : GeneratorResearch, call : GeneratorCalls]
    /\ fout = Undef
    /\ fpc = "called"

\* lines 8-26
GenerateBegin ==
    /\ fpc = "called"
    /\ LET begun == generatePersonasBegin(fin.apiKey, fin.uploadedData, fin.researchData) IN
       /\ fout' = begun
       /\ fpc' = IF HasThrown(begun) THEN "finished" ELSE "prompted"
    /\ UNCHANGED <<fin, handlerVars, calls>>

\* lines 32-65, the model call of lines 32-42 first
GenerateEnd ==
    /\ fpc = "prompted"
    /\ Called("anthropic.messages.create")
    /\ fout' = generatePersonasEnd(fout.returned, fin.call)
    /\ fpc' = "finished"
    /\ UNCHANGED <<fin, handlerVars>>

NextGen == GenerateBegin \/ GenerateEnd

SpecGen == InitGen /\ [][NextGen]_vars

\* the model was called and its reply was the empty array
RepliedEmptyArray ==
    /\ fpc = "finished"
    /\ fin.apiKey
    /\ validateDataSufficiency(buildSourceContext(fin.uploadedData, fin.researchData)).sufficient
    /\ fin.call = Json(<<>>)

\* C7: on the reply [] generatePersonas returns, raising nothing, with zero
\* personas and a validation summary whose valid_personas is 0
C7_EmptyArrayValidPersonasZero ==
    RepliedEmptyArray =>
        /\ HasReturned(fout)
        /\ fout.returned.personas = <<>>
        /\ "summary" \in DOMAIN fout.returned.validation
        /\ fout.returned.validation.summary.valid_personas = 0

\* C7, as the code has it: on the reply [] generatePersonas returns, raising
\* nothing, with zero personas; its validation is the data-sufficiency record
\* (sufficient, missing, available, confidence) with sufficient true, which
\* counts no personas
C7_EmptyArrayReturnsNoPersonas ==
    RepliedEmptyArray =>
        /\ HasReturned(fout)
        /\ fout.returned.personas = <<>>
        /\ DOMAIN fout.returned.validation =
              {"sufficient", "missing", "available", "confidence"}
        /\ fout.returned.validation.sufficient

\* the generator has returned on the reply []
C7_ReturnedOnEmptyArray == RepliedEmptyArray /\ HasReturned(fout)

----------------------------------------------------------------------------
(* Export, storage in the sheet, import of the stored rows *)

ExportedAges == {Num(0), Num(1), Num(45), Num(120)}

ExportedStyles ==
    { Undef, Str(<<"b">>),
      Obj([formality_level |-> Text("casual")]),
      Field(PEA_Fallback.enrichedFields, "communication_style") }

ExportedPersonas ==
    {[name |-> nm, age |-> ag] @@ Only("communication_style", cs) @@ Only("interests", ins) :
        nm \in {Str(<<"a">>), Str(<<"a", "b">>)}, ag \in ExportedAges,
        cs \in ExportedStyles, ins \in {Undef, Listed}}

InitRoundTrip ==
    /\ IdleHandler
    /\ fin \in ExportedPersonas
    /\ fout = Undef
    /\ fpc = "persona"

\* the whole of exportEnrichedPersonas
ExportEnriched ==
    /\ fpc = "persona"
    /\ fout' = exportEnrichedPersonas(<<fin>>, campaignData)
    /\ fpc' = "export returned"
    /\ UNCHANGED <<fin, handlerVars, calls>>

\* lines 460-519: the rows the export prepares
PrepareRows ==
    /\ fpc = "persona"
    /\ fout' = exportRows(<<fin>>, campaignData)
    /\ fpc' = "rows"
    /\ UNCHANGED <<fin, handlerVars, calls>>

IsCellText(cell) == IsNum(cell) \/ IsStr(cell) \/ IsText(cell)

\* the sheet takes the rows; a cell that is an object it either refuses or
\* keeps as a text
StoreRows ==
    /\ fpc = "rows"
    /\ \E objectCell \in {"refused", "[object Object]"} :
          IF objectCell = "refused"
             /\ \E r \in 1..Len(fout) : \E c \in 1..Len(fout[r]) : ~IsCellText(fout[r][c])
          THEN fout' = Threw(<<"Export failed: ", "Invalid values">>) /\ fpc' = "export returned"
          ELSE fout' = StoredRows(fout, Str(<<objectCell>>)) /\ fpc' = "stored"
    /\ UNCHANGED <<fin, handlerVars, calls>>

Reimport ==
    /\ fpc = "stored"
    /\ fout' = fetchPersonasFromExternalSheet("ok", fout)
    /\ fpc' = "reimported"
    /\ UNCHANGED <<fin, handlerVars, calls>>

NextRoundTrip == ExportEnriched \/ PrepareRows \/ StoreRows \/ Reimport

SpecRoundTrip == InitRoundTrip /\ [][NextRoundTrip]_vars

\* C8: a persona with a name and a numeric age, exported and read back from
\* the rows written, has the name, age and communication_style it had before
C8_RoundTripIdentical ==
    fpc = "reimported" =>
        /\ HasReturned(fout) /\ Len(fout.returned) = 1
        /\ \A k \in {"name", "age", "communication_style"} :
              Get(fout.returned[1], k) = Get(fin, k)


----------------------------------------------------------------------------
(* Further properties of the handler *)

\* the generator was called and the request answered
Generated == pc = "done" /\ "generatePersonas" \in Made /\ Len(responses) = 1

\* C11: in generation mode a generator that returns its result object is
\* answered with HTTP 200, success = true, the sessionId and the personas;
\* 422 and 500 are answers to a step that failed, and carry its error
C11_GeneratorResultAnswered200 ==
    Generated =>
        \/ /\ responses[1].status = 200
           /\ DOMAIN responses[1].body = {"success", "sessionId", "personas"}
        \/ /\ responses[1].status \in {422, 500}
           /\ "error" \in DOMAIN responses[1].body


\* import, validation and both stages went through without a failed call,
\* and the export was called
ExportedAllEnriched ==
    /\ Exported /\ Len(responses) = 1
    /\ \A n \in 1..Len(socialEnrichedPersonas) : ~FailedInA(n)
    /\ \A n \in 1..Len(finalEnrichedPersonas) : ~FailedInB(n)

\* C12: the export, the spreadsheet API answering, returns success with
\* rows_exported the number of personas, so that an enrichment request whose
\* import, validation and both stages succeed is answered with HTTP 200 and
\* rows_exported equal to the number of final personas
C12_ExportAnswered200 ==
    ExportedAllEnriched =>
        /\ responses[1].status = 200
        /\ responses[1].body.rows_exported = Len(finalEnrichedPersonas)


----------------------------------------------------------------------------
(* The research collector on its own *)

TopicSet == {Topics[n] : n \in 1..Len(Topics)}

InitResearch ==
    /\ IdleHandler
    /\ fin \in [perplexityKey : BOOLEAN,
                outcomes : [TopicSet -> {"ok", "unparsable", "fail"}]]
    /\ fout = Undef
    /\ fpc = "asked"

Research ==
    /\ fpc = "asked"
    /\ fout' = conductResearch(fin.perplexityKey, fin.outcomes)
    /\ fpc' = "researched"
    /\ UNCHANGED <<fin, handlerVars, calls>>

NextResearch == Research

SpecResearch == InitResearch /\ [][NextResearch]_vars

\* C13: with the credential configured, whichever of the four topic queries
\* fail or return unparsable content, the result is keyed by all four topics,
\* each failed topic a tagged error object with error and _request_type, each
\* successful topic its parsed data, and the result has research_timestamp
C13_FailedTopicsTagged ==
    (fpc = "researched" /\ fin.perplexityKey) =>
        /\ "research_timestamp" \in DOMAIN fout.obj
        /\ \A t \in TopicSet :
              /\ t \in DOMAIN fout.obj
              /\ IF fin.outcomes[t] = "ok"
                 THEN "data" \in DOMAIN fout.obj[t].obj
                 ELSE {"error", "_request_type"} \subseteq DOMAIN fout.obj[t].obj


----------------------------------------------------------------------------
(* Further properties of the generator *)

\* the generator has returned on a reply that held an array
ReturnedOnArray == fpc = "finished" /\ fin.call.kind = "json" /\ HasReturned(fout)

\* the score of the quality rules, a persona being complete or not
Score(persona, complete) ==
    (IF "data_sources" \in DOMAIN persona /\ IsList(persona.data_sources)
        /\ persona.data_sources # List(<<>>) THEN 30 ELSE 0)
    + (IF "confidence_score" \in DOMAIN persona /\ persona.confidence_score.num > 70
       THEN 25 ELSE 0)
    + (IF complete THEN 25 ELSE 0)
    + (IF "bio" \in DOMAIN persona /\ persona.bio.chars > 100 THEN 20 ELSE 0)

Required == {"name", "age", "bio", "motivations", "barriers", "communication_style"}

\* every required field is there, a list not empty
AllPresent(persona) ==
    \A k \in Required : k \in DOMAIN persona /\ persona[k] # List(<<>>)

\* every required field is there with a value that is not 0, not an empty
\* text and not an empty list
AllPresentNotFalsy(persona) ==
    \A k \in Required :
        k \in DOMAIN persona /\ persona[k] \notin {List(<<>>), Num(0), Chars(0), Str(<<>>)}

KeptAsStated(item) == AllPresent(item.obj) /\ Score(item.obj, TRUE) >= 50

KeptNotFalsy(item) == AllPresentNotFalsy(item.obj) /\ Score(item.obj, TRUE) >= 50

\* a returned persona without what the generator attached to it
AsReplied(persona) ==
    Obj([k \in DOMAIN persona \ {"validation", "source_citations"} |-> persona[k]])

ReturnedAsReplied ==
    [n \in 1..Len(fout.returned.personas) |-> AsReplied(fout.returned.personas[n])]

Holds(data, key) == IsObj(data) /\ key \in DOMAIN data.obj

\* none of the three categories has a source in the data given
NonePopulated ==
    /\ ~Holds(fin.uploadedData, "mri_data")
    /\ ~Holds(fin.uploadedData, "targetsmart_data")
    /\ ~Holds(fin.researchData, "demographics")
    /\ ~Holds(fin.researchData, "social_insights")
    /\ ~Holds(fin.researchData, "consumer_behavior")

ModelCalls == Len(SelectSeq(calls, LAMBDA c : c = "anthropic.messages.create"))

InsufficientData ==
    /\ HasThrown(fout)
    /\ fout.threw = <<"Insufficient data for persona generation: ",
                      "demographic_data", "social_insights", "consumer_behavior">>

\* C15: with the credential there, generatePersonas raises the 'Insufficient
\* data' error naming the missing categories, the model not called, if and
\* only if none of demographic_data, social_insights and consumer_behavior is
\* populated from the uploaded and research data; otherwise the model is
\* called exactly once
C15_InsufficientIffNonePopulated ==
    (fpc = "finished" /\ fin.apiKey) =>
        /\ InsufficientData <=> NonePopulated
        /\ NonePopulated => ModelCalls = 0
        /\ ~NonePopulated => ModelCalls = 1

\* the generator failed fast on data that populate no category
C15_FailedFast ==
    fpc = "finished" /\ fin.apiKey /\ NonePopulated /\ InsufficientData /\ ModelCalls = 0


----------------------------------------------------------------------------
(* Properties of the handler's failure responses and of its order of steps *)

\* C16: every response of status 400 or more that the handler sends to a
\* POST request holds the request's sessionId
C16_FailuresHoldSessionId ==
    \A n \in 1..Len(responses) :
        (req.method = "POST" /\ responses[n].status >= 400) =>
            "sessionId" \in DOMAIN responses[n].body


\* C17: an enrichment request made without ANTHROPIC_API_KEY is answered
\* before any external call: no sheet import, no research query, no persona
\* given to a model call
C17_NoExternalCallWithoutKey ==
    ("handlePersonaEnrichment" \in Made /\ ~env.ANTHROPIC_API_KEY) =>
        /\ "fetchPersonasFromExternalSheet" \notin Made
        /\ handlerResearchData = Undef
        /\ socialEnrichedPersonas = <<>>


\* C18: the generator is called only once the research collector has
\* returned; in enrichment the import precedes validation, Stage A works on
\* the personas of validation.valid only and in their order, Stage B starts
\* only when Stage A has finished and works on exactly Stage A's output, and
\* the export starts only when Stage B has finished
C18_StepsInOrder ==
    /\ "generatePersonas" \in Made => handlerResearchData # Undef
    /\ validation # NoValidation => "fetchPersonasFromExternalSheet" \in Made
    /\ socialEnrichedPersonas # <<>> =>
          /\ validation # NoValidation
          /\ Len(socialEnrichedPersonas) <= Len(validation.valid)
          /\ \A n \in 1..Len(socialEnrichedPersonas) :
                From(socialEnrichedPersonas[n], validation.valid[n])
    /\ (pc = "stageB" \/ finalEnrichedPersonas # <<>>) =>
          /\ Len(socialEnrichedPersonas) = Len(validation.valid)
          /\ Len(finalEnrichedPersonas) <= Len(socialEnrichedPersonas)
          /\ \A n \in 1..Len(finalEnrichedPersonas) :
                From(finalEnrichedPersonas[n], socialEnrichedPersonas[n])
    /\ "exportEnrichedPersonas" \in Made =>
          /\ Len(finalEnrichedPersonas) = Len(socialEnrichedPersonas)
          /\ Len(socialEnrichedPersonas) = Len(validation.valid)

\* the export was called with two personas that went through both stages
C18_ExportedTwoInOrder ==
    /\ "exportEnrichedPersonas" \in Made
    /\ Len(validation.valid) = 2
    /\ Len(finalEnrichedPersonas) = 2


\* C19: a persona whose model call failed in Stage A or in Stage B leaves the
\* pipeline with enrichment.status "failed"; one that leaves it with status
\* "enriched" had neither call fail
C19_FailureCollapsesToFailed ==
    \A n \in 1..Len(finalEnrichedPersonas) :
        /\ (FailedInA(n) \/ FailedInB(n)) =>
              Status(finalEnrichedPersonas[n]) = Text("failed")
        /\ Status(finalEnrichedPersonas[n]) = Text("enriched") =>
              ~FailedInA(n) /\ ~FailedInB(n)


----------------------------------------------------------------------------
(* The two stages' merge on its own: one persona that went through earlier *)
(* enrichment, one model reply                                             *)

MergedPersona ==
    [name |-> Str(<<"a">>), age |-> Num(45), source |-> Text("julius_sheet"),
     communication_style |-> Str(<<"b">>),
     legal_profile |-> Obj([previous_legal_experience |-> Text("none")]),
     document_insights |-> List(<<Text("earlier insight")>>)]

InitMerge ==
    /\ IdleHandler
    /\ \/ fin \in ParseInput("stageA", RepliesA)
       \/ fin \in ParseInput("stageB", RepliesB)
    /\ fout = Undef
    /\ fpc = "reply"

\* personaEnrichmentAgent lines 24-31 and 59-85, the call having replied
MergeStageA ==
    /\ fpc = "reply" /\ fin.parser = "stageA"
    /\ fout' = PEA_enrichPersonasItem(MergedPersona, fin.reply)
    /\ fpc' = "merged"
    /\ UNCHANGED <<fin, handlerVars, calls>>

\* personaAgent lines 409-444, the call having replied
MergeStageB ==
    /\ fpc = "reply" /\ fin.parser = "stageB"
    /\ fout' = PA_enrichPersonasItem(MergedPersona, fin.reply,
                                     buildSourceContext(Undef, Undef))
    /\ fpc' = "merged"
    /\ UNCHANGED <<fin, handlerVars, calls>>

NextMerge == MergeStageA \/ MergeStageB

SpecMerge == InitMerge /\ [][NextMerge]_vars

\* the top-level keys the parsed reply supplies to the stage
Supplied ==
    IF fin.parser = "stageA"
    THEN DOMAIN Spread(PEA_parseEnrichmentResponse(fin.reply).enrichedFields)
    ELSE DOMAIN Spread(Get(fin.reply.json, "additions"))
         \cup (IF "insights" \in DOMAIN fin.reply.json THEN {"document_insights"} ELSE {})
         \cup (IF "legal_profile" \in DOMAIN fin.reply.json THEN {"legal_profile"} ELSE {})

\* C20: after a stage whose reply parsed, every field the persona had before
\* the stage keeps its value unless the parsed reply supplies its key; a
\* Stage B reply without legal_profile or insights leaves legal_profile and
\* document_insights as they were
C20_UnsuppliedFieldsKept ==
    (fpc = "merged" /\ fin.reply.kind = "json") =>
        \A k \in DOMAIN MergedPersona \ Supplied : fout[k] = MergedPersona[k]


----------------------------------------------------------------------------
(* Properties of the two enrichment blocks *)

\* C21: a persona that Stage B has processed, its call failed or not, holds
\* the enrichment block exactly as Stage A made it and, beside it, an
\* enrichment_metadata block that Stage B wrote
C21_BothBlocksCoexist ==
    \A n \in 1..Len(finalEnrichedPersonas) :
        /\ "enrichment_metadata" \in DOMAIN finalEnrichedPersonas[n]
        /\ Get(finalEnrichedPersonas[n], "enrichment")
              = Get(socialEnrichedPersonas[n], "enrichment")


----------------------------------------------------------------------------
(* The three enrichment loops turn by turn.  calls holds, in their order,  *)
(* the model calls, the delays and the progress callback's invocations;    *)
(* fout holds the list made so far and the number of the turn to come.     *)

StageADelay == 1000
StageBDelay == 1000
ProgressDelay == 1500

ModelCall(n) == [call |-> n]
Delay(ms) == [delay |-> ms]
Progress(status, current, total) == [progress |-> status, current |-> current, total |-> total]

\* PersonaEnrichmentAgent.enrichPersonas, lines 24-50: what one turn calls
PEA_enrichPersonasEvents(n, total, call) ==
    <<ModelCall(n)>> \o If(call.kind # "fail" /\ n < total, <<Delay(StageADelay)>>)

\* personaAgent enrichPersonas, lines 406-465: what one turn calls
PA_enrichPersonasEvents(n, total, call) ==
    <<ModelCall(n)>> \o If(call.kind # "fail" /\ n < total, <<Delay(StageBDelay)>>)

FailedPersona(persona, message) ==
    [enrichment |-> Obj([status |-> Text("failed"), error |-> [message |-> message],
                         enriched_at |-> Now])] @@ persona

\* a turn that invokes the callback after the item only
PEA_enrichPersonasWithProgressTurn_afterItemOnly(results, n, total, persona, call, callback) ==
    LET enriched == PEA_enrichSinglePersona(persona, call)
        failed == HasThrown(enriched)
    IN [results |-> Append(results, IF failed THEN FailedPersona(persona, enriched.threw)
                                    ELSE enriched.returned),
        events |-> <<ModelCall(n)>>
                   \o If(callback.given,
                         <<Progress(IF failed THEN "failed" ELSE "completed", n, total)>>)
                   \o If(n < total, <<Delay(ProgressDelay)>>),
        threw |-> FALSE]

\* enrichPersonasWithProgress, lines 276-328: one turn of its loop.  The
\* callback is [given, throwsOn]: it throws when invoked with a status of
\* throwsOn.  The result holds the list after the turn, what the turn
\* called, and whether the turn threw out of the function.
PEA_enrichPersonasWithProgressTurn(results, n, total, persona, call, callback) ==
    LET Invoked(status) == If(callback.given, <<Progress(status, n, total)>>)
        Throws(status) == callback.given /\ status \in callback.throwsOn
        delay == If(n < total, <<Delay(ProgressDelay)>>)
        \* the catch block, entered with the list and the events so far
        Caught(list, events, message) ==
            IF Throws("failed")
            THEN [results |-> Append(list, FailedPersona(persona, message)),
                  events |-> events \o Invoked("failed"), threw |-> TRUE]
            ELSE [results |-> Append(list, FailedPersona(persona, message)),
                  events |-> events \o Invoked("failed") \o delay, threw |-> FALSE]
        enriched == PEA_enrichSinglePersona(persona, call)
    IN IF Throws("enriching")
       THEN Caught(results, Invoked("enriching"), <<"callback failed">>)
       ELSE IF HasThrown(enriched)
       THEN Caught(results, Invoked("enriching") \o <<ModelCall(n)>>, enriched.threw)
       ELSE IF Throws("completed")
       THEN Caught(Append(results, enriched.returned),
                   Invoked("enriching") \o <<ModelCall(n)>> \o Invoked("completed"),
                   <<"callback failed">>)
       ELSE [results |-> Append(results, enriched.returned),
             events |-> Invoked("enriching") \o <<ModelCall(n)>> \o Invoked("completed")
                        \o delay,
             threw |-> FALSE]

LoopCalls ==
    { Fail("overloaded"),
      Json([enrichedFields |-> Obj([communication_style |-> Str(<<"b">>)]),
            confidence |-> Num(5)]) }

ProgressStatuses == {"enriching", "completed", "failed"}

Callbacks ==
    {[given |-> FALSE, throwsOn |-> {}]}
    \cup {[given |-> TRUE, throwsOn |-> s] : s \in SUBSET ProgressStatuses}

LoopPersona(n) == [name |-> Str(<<"a">>), age |-> Num(n), source |-> Text("julius_sheet")]

InitLoop ==
    /\ IdleHandler
    /\ \/ fin \in [loop : {"stageA", "stageB"}, calls : SeqsUpTo(LoopCalls, MaxBatch),
                   callback : {[given |-> FALSE, throwsOn |-> {}]}]
       \/ fin \in [loop : {"withProgress"}, calls : SeqsUpTo(LoopCalls, MaxBatch),
                   callback : Callbacks]
    /\ fout = [results |-> <<>>, n |-> 1]
    /\ fpc = "loop"

Turn(results, events) ==
    /\ fout' = [results |-> results, n |-> fout.n + 1]
    /\ calls' = calls \o events
    /\ fpc' = "loop"
    /\ UNCHANGED <<fin, handlerVars>>

StageATurn ==
    /\ fpc = "loop" /\ fin.loop = "stageA" /\ fout.n <= Len(fin.calls)
    /\ Turn(PEA_enrichPersonasTurn(fout.results, LoopPersona(fout.n), fin.calls[fout.n]),
            PEA_enrichPersonasEvents(fout.n, Len(fin.calls), fin.calls[fout.n]))

StageBTurn ==
    /\ fpc = "loop" /\ fin.loop = "stageB" /\ fout.n <= Len(fin.calls)
    /\ Turn(PA_enrichPersonasTurn(fout.results, LoopPersona(fout.n), fin.calls[fout.n],
                                  buildSourceContext(Undef, Undef)),
            PA_enrichPersonasEvents(fout.n, Len(fin.calls), fin.calls[fout.n]))

WithProgressTurn ==
    /\ fpc = "loop" /\ fin.loop = "withProgress" /\ fout.n <= Len(fin.calls)
    /\ LET turn == PEA_enrichPersonasWithProgressTurn(fout.results, fout.n, Len(fin.calls),
                       LoopPersona(fout.n), fin.calls[fout.n], fin.callback)
       IN /\ fout' = [results |-> turn.results, n |-> fout.n + 1]
          /\ calls' = calls \o turn.events
          /\ fpc' = IF turn.threw THEN "threw" ELSE "loop"
    /\ UNCHANGED <<fin, handlerVars>>

\* the loop's condition fails: the function returns its list
LoopReturns ==
    /\ fpc = "loop" /\ fout.n > Len(fin.calls)
    /\ fpc' = "returned"
    /\ UNCHANGED <<fin, fout, handlerVars, calls>>

NextLoop == StageATurn \/ StageBTurn \/ WithProgressTurn \/ LoopReturns

SpecLoop == InitLoop /\ [][NextLoop]_vars


IsCall(k) == "call" \in DOMAIN calls[k]
IsDelay(k) == "delay" \in DOMAIN calls[k]
IsProgress(k) == "progress" \in DOMAIN calls[k]

\* C22: in each loop a delay lies between the model calls of any two
\* consecutive personas, the earlier call failed or not, and no delay
\* follows the last persona's call
C22_DelayBetweenCalls ==
    (fpc = "returned" /\ fin.callback.throwsOn = {}) =>
        /\ \A a, b \in 1..Len(calls) :
              (IsCall(a) /\ IsCall(b) /\ calls[b].call = calls[a].call + 1) =>
                  \E d \in (a + 1)..(b - 1) : IsDelay(d)
        /\ \A d \in 1..Len(calls) :
              IsDelay(d) => \E b \in (d + 1)..Len(calls) : IsCall(b)


\* the progress callback's invocations, in their order
ProgressEvents == SelectSeq(calls, LAMBDA e : "progress" \in DOMAIN e)

PositionOf(e) == CHOOSE k \in 1..Len(calls) : calls[k] = e

\* enrichPersonasWithProgress has returned, its callback given and never throwing
ReturnedWithCallback ==
    /\ fpc = "returned" /\ fin.loop = "withProgress"
    /\ fin.callback.given /\ fin.callback.throwsOn = {}

\* C23: with a callback that returns normally, enrichPersonasWithProgress
\* invokes it for each persona i, in input order, with status 'enriching' and
\* current = i before the model call for i, then exactly once with
\* 'completed' if the call succeeded or 'failed' if it failed, before any
\* event for i + 1; every event has total = the input length and a status of
\* enriching, completed, failed
C23_ProgressEventsInOrder ==
    ReturnedWithCallback =>
        LET total == Len(fin.calls) IN
        /\ Len(ProgressEvents) = 2 * total
        /\ \A e \in 1..Len(ProgressEvents) :
              /\ ProgressEvents[e].total = total
              /\ ProgressEvents[e].progress \in ProgressStatuses
        /\ \A n \in 1..total :
              /\ ProgressEvents[2 * n - 1] = Progress("enriching", n, total)
              /\ ProgressEvents[2 * n] =
                    Progress(IF fin.calls[n].kind = "fail" THEN "failed" ELSE "completed",
                             n, total)
              /\ PositionOf(ProgressEvents[2 * n - 1]) < PositionOf(ModelCall(n))
              /\ PositionOf(ModelCall(n)) < PositionOf(ProgressEvents[2 * n])

\* the function returned after a failed call for persona 1 and a successful
\* one for persona 2, the callback invoked four times
C23_ReportedFailedThenCompleted ==
    /\ ReturnedWithCallback /\ Len(fin.calls) = 2
    /\ fin.calls[1].kind = "fail" /\ fin.calls[2].kind = "json"
    /\ Len(ProgressEvents) = 4


\* C24: whatever the callback does (absent, returning, throwing on any of
\* its invocations), enrichPersonasWithProgress returns a list with one
\* entry per input persona, in input order, each entry's enrichment.status
\* telling the outcome of that persona's model call alone
C24_CallbackLeavesResultAlone ==
    (fin.loop = "withProgress" /\ fpc # "loop") =>
        /\ fpc = "returned"
        /\ Len(fout.results) = Len(fin.calls)
        /\ \A n \in 1..Len(fout.results) :
              /\ Get(fout.results[n], "age") = LoopPersona(n).age
              /\ Status(fout.results[n]) =
                    IF fin.calls[n].kind = "fail" THEN Text("failed") ELSE Text("enriched")


----------------------------------------------------------------------------
(* Validation against source documents: validationAgent validatePersonas.  *)
(* The validator model's reply is [kind |-> "json", json |-> record], a    *)
(* text without JSON, or a failed call.                                    *)

VA_Fallback ==
    [approved |-> TRUE, confidence |-> 60, verified_traits |-> <<>>,
     questionable_traits |-> <<>>, errors |-> <<"Validation parsing failed">>]

\* parseValidationResponse, lines 193-221: the try block reads jsonMatch,
\* which no statement declares; the read raises a ReferenceError on every
\* reply, and the catch block returns the fallback
VA_parseValidationResponse(reply) ==
    LET jsonMatchDeclared == FALSE IN
    IF ~jsonMatchDeclared \/ reply.kind # "json"
    THEN VA_Fallback
    ELSE [approved |-> IF "approved" \in DOMAIN reply.json THEN reply.json.approved
                       ELSE FALSE,
          confidence |-> 0, verified_traits |-> <<>>, questionable_traits |-> <<>>,
          errors |-> <<>>]

\* validateSinglePersona, lines 69-109
VA_validateSinglePersona(persona, call) ==
    IF call.kind = "fail"
    THEN [persona |-> persona, validation_passed |-> TRUE, errors |-> <<call.error>>]
    ELSE LET validationResult == VA_parseValidationResponse(call) IN
         [persona |-> persona,
          validation_passed |-> validationResult.approved,
          confidence |-> validationResult.confidence,
          verified_traits |-> validationResult.verified_traits,
          questionable_traits |-> validationResult.questionable_traits,
          errors |-> validationResult.errors]

RECURSIVE Flat(_)
\* Array.prototype.flat on a list of lists
Flat(lists) == IF lists = <<>> THEN <<>> ELSE Head(lists) \o Flat(Tail(lists))

\* validatePersonas, lines 7-64; confidence_score is passed / total * 100,
\* kept as the pair <<passed * 100, total>> (<<0, 0>> is NaN)
VA_validatePersonas(openaiKey, personas, validatorCalls) ==
    IF ~openaiKey
    THEN [validated |-> personas, errors |-> <<"Validation skipped - no OpenAI key">>,
          confidence_score |-> <<75, 1>>]
    ELSE LET validationResults ==
                 [n \in 1..Len(personas) |->
                     VA_validateSinglePersona(personas[n], validatorCalls[n])]
             passedValidation == SelectSeq(validationResults, LAMBDA v : v.validation_passed)
             errors == SelectSeq(validationResults, LAMBDA v : ~v.validation_passed)
         IN [validated |-> [n \in 1..Len(passedValidation) |-> passedValidation[n].persona],
             validation_details |-> validationResults,
             errors |-> Flat([n \in 1..Len(errors) |-> errors[n].errors]),
             confidence_score |-> <<Len(passedValidation) * 100, Len(personas)>>]

ValidatorCalls ==
    { Fail("rate_limited"), [kind |-> "nojson"],
      Json([approved |-> TRUE]), Json([approved |-> FALSE]),
      Json([confidence |-> 80]) }

InitSources ==
    /\ IdleHandler
    /\ fin \in [openaiKey : BOOLEAN, calls : SeqsUpTo(ValidatorCalls, MaxBatch)]
    /\ fout = Undef
    /\ fpc = "called"

ValidateAgainstSources ==
    /\ fpc = "called"
    /\ fout' = VA_validatePersonas(fin.openaiKey,
                                   [n \in 1..Len(fin.calls) |-> LoopPersona(n)], fin.calls)
    /\ fpc' = "validated"
    /\ UNCHANGED <<fin, handlerVars, calls>>

NextSources == ValidateAgainstSources

SpecSources == InitSources /\ [][NextSources]_vars

\* the validator's reply for persona n says approved = false
Disapproved(n) ==
    /\ fin.calls[n].kind = "json"
    /\ "approved" \in DOMAIN fin.calls[n].json
    /\ ~fin.calls[n].json.approved

\* C27: with the validator credential there, a persona whose reply says
\* approved = false is not in the validated list, the validated list is a
\* sub-list of the input in input order, and confidence_score is 100 times
\* the fraction of personas that passed
C27_DisapprovedExcluded ==
    (fpc = "validated" /\ fin.openaiKey) =>
        /\ \A n \in 1..Len(fin.calls) :
              Disapproved(n) =>
                  \A k \in 1..Len(fout.validated) : fout.validated[k] # LoopPersona(n)
        /\ \A k \in 1..Len(fout.validated) :
              \E n \in k..Len(fin.calls) : fout.validated[k] = LoopPersona(n)
        /\ fout.confidence_score = <<100 * Len(fout.validated), Len(fin.calls)>>


----------------------------------------------------------------------------
(* The research collector's four queries in flight: conductResearch lines  *)
(* 13-38 with the credential set.  fout.query tells where each topic's     *)
(* request stands; fpc tells where conductResearch stands.                 *)

Settled(state) == state \in {"fulfilled", "rejected"}

InitJoin ==
    /\ IdleHandler
    /\ fin \in [perplexityKey : {TRUE}, outcomes : [TopicSet -> {"ok", "unparsable", "fail"}]]
    /\ fout = [query |-> [t \in TopicSet |-> "idle"], result |-> Undef]
    /\ fpc = "called"

\* lines 16-21: the four research functions are called one after the other,
\* each running up to its request (axios.post, line 167) without yielding;
\* then conductResearch awaits Promise.all
StartQueries ==
    /\ fpc = "called"
    /\ fout' = [fout EXCEPT !.query = [t \in TopicSet |-> "inflight"]]
    /\ fpc' = "awaiting"
    /\ UNCHANGED <<fin, handlerVars, calls>>

\* Promise.all has settled: one request rejected, or all four fulfilled
JoinSettled ==
    \/ \E t \in TopicSet : fout.query[t] = "rejected"
    \/ \A t \in TopicSet : fout.query[t] = "fulfilled"

\* a request completes (lines 189-209) or fails (211-221); while
\* conductResearch has a continuation to run, no request's completion is handled
Settle(t) ==
    /\ fout.query[t] = "inflight"
    /\ ~(fpc = "awaiting" /\ JoinSettled)
    /\ fout' = [fout EXCEPT !.query[t] =
                   IF HasThrown(makePerplexityRequest(t, fin.outcomes[t]))
                   THEN "rejected" ELSE "fulfilled"]
    /\ UNCHANGED <<fin, fpc, handlerVars, calls>>

\* lines 23-33 when all four fulfilled, lines 35-38 on the first rejection
JoinReturns ==
    /\ fpc = "awaiting" /\ JoinSettled
    /\ fout' = [fout EXCEPT !.result = conductResearch(fin.perplexityKey, fin.outcomes)]
    /\ fpc' = "returned"
    /\ UNCHANGED <<fin, handlerVars, calls>>

NextJoin == StartQueries \/ (\E t \in TopicSet : Settle(t)) \/ JoinReturns

SpecJoin == InitJoin /\ [][NextJoin]_vars

\* C25: no query completes before all four have been started, and
\* conductResearch returns only when all four have settled, fulfilled or
\* rejected, whatever the order of their completions and failures
C25_ReturnsAfterAllSettled ==
    /\ (\E t \in TopicSet : Settled(fout.query[t])) =>
          \A t \in TopicSet : fout.query[t] # "idle"
    /\ fpc = "returned" => \A t \in TopicSet : Settled(fout.query[t])


----------------------------------------------------------------------------
(* Further properties of the import *)

SheetAccessFailed ==
    Len(responses) = 1 /\ "error" \in DOMAIN responses[1].body
    /\ responses[1].body.error = "SHEET_ACCESS_FAILED"

\* C26: the SHEET_ACCESS_FAILED response names the cause: 'Permission denied
\* accessing Julius sheet' for a permission failure and for no other,
\* 'Julius sheet not found' for a sheet that was not found, 'Empty personas
\* sheet' for a sheet that is empty or holds its header row only
C26_ImportFailureNamedByCause ==
    SheetAccessFailed =>
        responses[1].body.message =
            CASE sheet.access = "forbidden" -> "Permission denied accessing Julius sheet"
              [] sheet.access = "notfound" -> "Julius sheet not found"
              [] OTHER -> "Empty personas sheet"


\* a text that is not empty and neither starts nor ends with a space
NonEmptyTrimmed(v) ==
    /\ IsStr(v) /\ Len(v.str) > 0
    /\ v.str[1] # " " /\ v.str[Len(v.str)] # " "

\* C28: every imported persona has a non-empty, trimmed name, so import
\* validation finds none of them invalid: validation.valid is the imported
\* list, invalid_personas is 0, and the NO_VALID_PERSONAS response is never sent
C28_ImportedAreAllValid ==
    /\ \A n \in 1..Len(importedPersonas) : NonEmptyTrimmed(Get(importedPersonas[n], "name"))
    /\ "fetchPersonasFromExternalSheet" \in Made =>
          /\ validation.valid = importedPersonas
          /\ validation.summary.invalid_personas = 0
          /\ validation.errors = <<>>
    /\ \A n \in 1..Len(responses) :
          "error" \in DOMAIN responses[n].body =>
              responses[n].body.error # "NO_VALID_PERSONAS"

\* a sheet of two data rows, one without a name, was imported as one persona
\* that validation found valid
C28_NamelessRowDropped ==
    /\ sheet.access = "ok" /\ Len(sheet.rows) = 3
    /\ Len(importedPersonas) = 1
    /\ validation.summary.valid_personas = 1


----------------------------------------------------------------------------
(* Further properties of import validation *)

\* C29: for every input list the validation satisfies valid_personas +
\* invalid_personas = total_imported = the input's length, length(valid) =
\* valid_personas, length(errors) = invalid_personas, length(warnings) =
\* personas_with_warnings <= valid_personas, and valid holds input personas
\* as they were given, in their order
C29_SummaryCountsAgree ==
    fpc = "validated" =>
        LET summary == fout.summary IN
        /\ summary.valid_personas + summary.invalid_personas = summary.total_imported
        /\ summary.total_imported = Len(fin)
        /\ Len(fout.valid) = summary.valid_personas
        /\ Len(fout.errors) = summary.invalid_personas
        /\ Len(fout.warnings) = summary.personas_with_warnings
        /\ summary.personas_with_warnings <= summary.valid_personas
        /\ fout.valid =
              SelectSeq(fin, LAMBDA p : \E k \in 1..Len(fout.valid) : fout.valid[k] = p)

\* a batch of an unnamed persona and a named one with warnings was validated
C29_OneInvalidOneWarned ==
    /\ fpc = "validated" /\ Len(fin) = 2
    /\ fout.summary.invalid_personas = 1
    /\ fout.summary.personas_with_warnings = 1


----------------------------------------------------------------------------
(* The handler with each of its steps completing: every call the handler   *)
(* awaits returns or throws, so a handler that can take a step takes one   *)

SpecLive == Init /\ [][Next]_vars /\ WF_vars(Next)

=============================================================================
